---- MODULE Spec2Model ----
(***************************************************************************)
(* react-compat-check: the compatibility resolution and fix-selection      *)
(* engine (src/utils/compatibility.ts, src/utils/upgrader.ts).             *)
(*                                                                         *)
(* Strings the program computes with (version strings, range strings) are *)
(* sequences of one-character strings, so that the regular expressions,   *)
(* the prefix stripping and the `^${version}` template are computed, not   *)
(* assumed: <<"1", "9">> is the text "19".                                 *)
(***************************************************************************)
EXTENDS Integers, Sequences, FiniteSets, TLC

\* absence of a text (null / undefined where the program expects a string);
\* no text of the model has an element of more than one character
NULL == <<"<null>">>

(***************************************************************************)
(* Characters                                                              *)
(***************************************************************************)
Digits == {"0", "1", "2", "3", "4", "5", "6", "7", "8", "9"}

IsDigit(c) == c \in Digits

DigitVal(c) ==
  CASE c = "0" -> 0 [] c = "1" -> 1 [] c = "2" -> 2 [] c = "3" -> 3
    [] c = "4" -> 4 [] c = "5" -> 5 [] c = "6" -> 6 [] c = "7" -> 7
    [] c = "8" -> 8 [] c = "9" -> 9

DigitChar(n) ==
  CASE n = 0 -> "0" [] n = 1 -> "1" [] n = 2 -> "2" [] n = 3 -> "3"
    [] n = 4 -> "4" [] n = 5 -> "5" [] n = 6 -> "6" [] n = 7 -> "7"
    [] n = 8 -> "8" [] n = 9 -> "9"

\* \s of the regular expressions (the texts of the model use the blank only)
IsSpace(c) == c = " "

\* letters that may occur in a prerelease identifier or in a word
Letters == {"a", "b", "c", "e", "l", "r", "s", "t", "w"}

\* ASCII order of the characters an identifier is made of
CharCode(c) ==
  CASE c = "-" -> 45
    [] c \in Digits -> 48 + DigitVal(c)
    [] c = "X" -> 88
    [] c = "a" -> 97 [] c = "b" -> 98 [] c = "c" -> 99 [] c = "e" -> 101
    [] c = "l" -> 108 [] c = "r" -> 114 [] c = "s" -> 115 [] c = "t" -> 116
    [] c = "v" -> 118 [] c = "w" -> 119 [] c = "x" -> 120
    [] OTHER -> 0

IsIdentChar(c) == IsDigit(c) \/ c \in Letters \/ c \in {"-", "x", "X", "v"}

(***************************************************************************)
(* Text helpers                                                            *)
(***************************************************************************)
AllDigits(s) == Len(s) > 0 /\ \A i \in 1..Len(s) : IsDigit(s[i])

RECURSIVE ParseNat(_)
ParseNat(s) ==
  IF Len(s) = 0 THEN 0
  ELSE 10 * ParseNat(SubSeq(s, 1, Len(s) - 1)) + DigitVal(s[Len(s)])

RECURSIVE NatText(_)
NatText(n) ==
  IF n < 10 THEN <<DigitChar(n)>>
  ELSE NatText(n \div 10) \o <<DigitChar(n % 10)>>

\* end (exclusive) of the run of digits that starts at position i
RECURSIVE DigitRunEnd(_, _)
DigitRunEnd(s, i) ==
  IF i <= Len(s) /\ IsDigit(s[i]) THEN DigitRunEnd(s, i + 1) ELSE i

\* first position >= i that holds no blank
RECURSIVE SkipSpaces(_, _)
SkipSpaces(s, i) ==
  IF i <= Len(s) /\ IsSpace(s[i]) THEN SkipSpaces(s, i + 1) ELSE i

\* String.prototype.trim
RECURSIVE TrimLeft(_)
TrimLeft(s) ==
  IF Len(s) > 0 /\ IsSpace(s[1]) THEN TrimLeft(Tail(s)) ELSE s

RECURSIVE TrimRight(_)
TrimRight(s) ==
  IF Len(s) > 0 /\ IsSpace(s[Len(s)])
  THEN TrimRight(SubSeq(s, 1, Len(s) - 1)) ELSE s

Trim(s) == TrimRight(TrimLeft(s))

\* s.split(sep) for a one-character separator: the list of pieces
RECURSIVE SplitOn(_, _, _, _)
SplitOn(s, sep, i, cur) ==
  IF i > Len(s) THEN <<cur>>
  ELSE IF s[i] = sep THEN <<cur>> \o SplitOn(s, sep, i + 1, <<>>)
  ELSE SplitOn(s, sep, i + 1, Append(cur, s[i]))

Split(s, sep) == SplitOn(s, sep, 1, <<>>)

\* s.split('||')
RECURSIVE SplitOrOn(_, _, _)
SplitOrOn(s, i, cur) ==
  IF i > Len(s) THEN <<cur>>
  ELSE IF i < Len(s) /\ s[i] = "|" /\ s[i + 1] = "|"
       THEN <<cur>> \o SplitOrOn(s, i + 2, <<>>)
  ELSE SplitOrOn(s, i + 1, Append(cur, s[i]))

SplitOr(s) == SplitOrOn(s, 1, <<>>)

\* runs of blanks collapsed to one blank
RECURSIVE CollapseSpaces(_)
CollapseSpaces(s) ==
  IF Len(s) = 0 THEN <<>>
  ELSE IF IsSpace(s[1]) /\ Len(s) > 1 /\ IsSpace(s[2]) THEN CollapseSpaces(Tail(s))
  ELSE <<s[1]>> \o CollapseSpaces(Tail(s))

(***************************************************************************)
(* semver: versions.  A parsed version (class SemVer) is the tuple         *)
(* <<major, minor, patch, prerelease>>, prerelease a list of identifier    *)
(* texts; NoVersion is the null that semver.parse and semver.coerce        *)
(* return for a text that is no version.                                   *)
(***************************************************************************)
NoVersion == <<>>

Major(v) == v[1]
Minor(v) == v[2]
Patch(v) == v[3]
Pre(v) == v[4]

\* position of the first c in s, 0 when there is none
RECURSIVE IndexFrom(_, _, _)
IndexFrom(s, c, i) ==
  IF i > Len(s) THEN 0 ELSE IF s[i] = c THEN i ELSE IndexFrom(s, c, i + 1)

IndexOf(s, c) == IndexFrom(s, c, 1)

\* NUMERICIDENTIFIER: 0|[1-9]\d*
IsNumericId(s) == AllDigits(s) /\ (Len(s) = 1 \/ s[1] # "0")

\* XID: a numeric identifier or one of x, X, *
IsXMark(s) == s \in {<<"x">>, <<"X">>, <<"*">>}
IsXId(s) == IsNumericId(s) \/ IsXMark(s)

\* PRERELEASEIDENTIFIER: numeric without leading zero, or [0-9A-Za-z-]+ with a non-digit
IsPreId(s) ==
  /\ Len(s) > 0
  /\ \A i \in 1..Len(s) : IsIdentChar(s[i])
  /\ (AllDigits(s) => IsNumericId(s))

\* BUILDIDENTIFIER: [0-9A-Za-z-]+
IsBuildId(s) == Len(s) > 0 /\ \A i \in 1..Len(s) : IsIdentChar(s[i])

\* a partial version "M", "M.m", "M.m.p", "M.m.p-pre", "M.m.p+build",
\* "M.m.p-pre+build", components numeric or x: <<components, prerelease>>,
\* components a list of naturals, an x written as -1; <<>> when the text is no
\* partial version.  Build metadata is checked and dropped.
ParsePartial(s) ==
  LET Partial(comps, ids, tagged, build, built) ==
        IF /\ Len(comps) \in 1..3
           /\ \A i \in 1..Len(comps) : IsXId(comps[i])
           /\ (tagged => Len(comps) = 3 /\ \A i \in 1..Len(ids) : IsPreId(ids[i]))
           /\ (built => Len(comps) = 3 /\ \A i \in 1..Len(build) : IsBuildId(build[i]))
        THEN << [i \in 1..Len(comps) |->
                   IF IsXMark(comps[i]) THEN -1 ELSE ParseNat(comps[i])], ids >>
        ELSE <<>>
      SplitAt(core, dash, build, built) ==
        IF dash = 0 THEN Partial(Split(core, "."), <<>>, FALSE, build, built)
        ELSE Partial(Split(SubSeq(core, 1, dash - 1), "."),
                     Split(SubSeq(core, dash + 1, Len(core)), "."), TRUE, build, built)
      Core(core, build, built) == SplitAt(core, IndexOf(core, "-"), build, built)
      SplitBuild(plus) ==
        IF plus = 0 THEN Core(s, <<>>, FALSE)
        ELSE Core(SubSeq(s, 1, plus - 1), Split(SubSeq(s, plus + 1, Len(s)), "."), TRUE)
  IN SplitBuild(IndexOf(s, "+"))

\* semver.parse / new SemVer(text): trimmed, an optional leading v, then
\* MAJOR.MINOR.PATCH and an optional prerelease tag
ParseVersion(s) ==
  LET Unprefixed(t) == IF Len(t) > 0 /\ t[1] = "v" THEN Tail(t) ELSE t
      Full(p) ==
        IF Len(p) > 0 /\ Len(p[1]) = 3 /\ \A i \in 1..3 : p[1][i] >= 0
        THEN <<p[1][1], p[1][2], p[1][3], p[2]>>
        ELSE NoVersion
  IN Full(ParsePartial(Unprefixed(Trim(s))))

\* semver.valid
IsValidVersion(s) == Len(ParseVersion(s)) > 0

\* compareIdentifiers: numeric identifiers by value and below the others,
\* the others in ASCII order; -1, 0 or 1
RECURSIVE CompareText(_, _)
CompareText(a, b) ==
  IF Len(a) = 0 /\ Len(b) = 0 THEN 0
  ELSE IF Len(a) = 0 THEN -1
  ELSE IF Len(b) = 0 THEN 1
  ELSE IF CharCode(a[1]) < CharCode(b[1]) THEN -1
  ELSE IF CharCode(a[1]) > CharCode(b[1]) THEN 1
  ELSE CompareText(Tail(a), Tail(b))

CompareIdentifiers(a, b) ==
  IF AllDigits(a) /\ AllDigits(b)
  THEN (IF ParseNat(a) < ParseNat(b) THEN -1 ELSE IF ParseNat(a) > ParseNat(b) THEN 1 ELSE 0)
  ELSE IF AllDigits(a) THEN -1
  ELSE IF AllDigits(b) THEN 1
  ELSE CompareText(a, b)

\* SemVer.comparePre: a release is above its prereleases; identifier lists
\* compare element by element, the shorter list first
RECURSIVE ComparePreLists(_, _)
ComparePreLists(a, b) ==
  IF Len(a) = 0 /\ Len(b) = 0 THEN 0
  ELSE IF Len(b) = 0 THEN 1
  ELSE IF Len(a) = 0 THEN -1
  ELSE LET OrRest(c) == IF c # 0 THEN c ELSE ComparePreLists(Tail(a), Tail(b))
       IN OrRest(CompareIdentifiers(a[1], b[1]))

ComparePre(a, b) ==
  IF Len(Pre(a)) > 0 /\ Len(Pre(b)) = 0 THEN -1
  ELSE IF Len(Pre(a)) = 0 /\ Len(Pre(b)) > 0 THEN 1
  ELSE IF Len(Pre(a)) = 0 /\ Len(Pre(b)) = 0 THEN 0
  ELSE ComparePreLists(Pre(a), Pre(b))

\* SemVer.compareMain
CompareMain(a, b) ==
  IF Major(a) # Major(b) THEN (IF Major(a) < Major(b) THEN -1 ELSE 1)
  ELSE IF Minor(a) # Minor(b) THEN (IF Minor(a) < Minor(b) THEN -1 ELSE 1)
  ELSE IF Patch(a) # Patch(b) THEN (IF Patch(a) < Patch(b) THEN -1 ELSE 1)
  ELSE 0

\* SemVer.compare on parsed versions
CompareVersions(a, b) ==
  LET OrPre(c) == IF c # 0 THEN c ELSE ComparePre(a, b)
  IN OrPre(CompareMain(a, b))

(***************************************************************************)
(* semver: ranges.  A parsed range (class Range) is a list of comparator   *)
(* sets, one per ||-alternative; a comparator is [operator, semver], the   *)
(* comparator ANY having no version.  NoRange is the null of               *)
(* semver.validRange.                                                      *)
(***************************************************************************)
NoRange == <<>>

ANY == [operator |-> "", semver |-> NoVersion]

IsAny(c) == Len(c.semver) = 0

Comparator(op, M, m, p, pre) == [operator |-> op, semver |-> <<M, m, p, pre>>]

\* the "-0" tag of an exclusive upper bound
PreZero == << <<"0">> >>

\* replaceGTE0: the comparator >=0.0.0 is written as ANY
ReplaceGTE0(c) ==
  IF c.operator = ">=" /\ c.semver = <<0, 0, 0, <<>> >> THEN ANY ELSE c

\* component i of a partial version, -1 (x) when it is not written
Comp(partial, i) == IF i <= Len(partial[1]) THEN partial[1][i] ELSE -1

IsX(n) == n < 0

\* replaceCaret
CaretSet(pt) ==
  LET M == Comp(pt, 1)  m == Comp(pt, 2)  p == Comp(pt, 3)  pr == pt[2]
  IN IF IsX(M) THEN <<ANY>>
     ELSE IF IsX(m) THEN <<Comparator(">=", M, 0, 0, <<>>), Comparator("<", M + 1, 0, 0, PreZero)>>
     ELSE IF IsX(p) THEN
       IF M = 0 THEN <<Comparator(">=", M, m, 0, <<>>), Comparator("<", M, m + 1, 0, PreZero)>>
       ELSE <<Comparator(">=", M, m, 0, <<>>), Comparator("<", M + 1, 0, 0, PreZero)>>
     ELSE IF M = 0 THEN
       IF m = 0 THEN <<Comparator(">=", M, m, p, pr), Comparator("<", M, m, p + 1, PreZero)>>
       ELSE <<Comparator(">=", M, m, p, pr), Comparator("<", M, m + 1, 0, PreZero)>>
     ELSE <<Comparator(">=", M, m, p, pr), Comparator("<", M + 1, 0, 0, PreZero)>>

\* replaceTilde
TildeSet(pt) ==
  LET M == Comp(pt, 1)  m == Comp(pt, 2)  p == Comp(pt, 3)  pr == pt[2]
  IN IF IsX(M) THEN <<ANY>>
     ELSE IF IsX(m) THEN <<Comparator(">=", M, 0, 0, <<>>), Comparator("<", M + 1, 0, 0, PreZero)>>
     ELSE IF IsX(p) THEN <<Comparator(">=", M, m, 0, <<>>), Comparator("<", M, m + 1, 0, PreZero)>>
     ELSE <<Comparator(">=", M, m, p, pr), Comparator("<", M, m + 1, 0, PreZero)>>

\* replaceXRange followed by replaceStars and the Comparator constructor,
\* for the operator gtlt in "", "=", "<", "<=", ">", ">="
XRangeSet(gtlt, pt) ==
  LET M == Comp(pt, 1)  m == Comp(pt, 2)  p == Comp(pt, 3)  pr == pt[2]
      anyX == IsX(M) \/ IsX(m) \/ IsX(p)
      op == IF gtlt = "=" THEN "" ELSE gtlt
      m0 == IF IsX(m) THEN 0 ELSE m
  IN IF IsX(M) THEN
       (IF op \in {">", "<"} THEN <<Comparator("<", 0, 0, 0, PreZero)>> ELSE <<ANY>>)
     ELSE IF op # "" /\ anyX THEN
       (CASE op = ">" ->
               (IF IsX(m) THEN <<Comparator(">=", M + 1, 0, 0, <<>>)>>
                ELSE <<Comparator(">=", M, m + 1, 0, <<>>)>>)
          [] op = "<=" ->
               (IF IsX(m) THEN <<Comparator("<", M + 1, 0, 0, PreZero)>>
                ELSE <<Comparator("<", M, m + 1, 0, PreZero)>>)
          [] op = "<" -> <<Comparator("<", M, m0, 0, PreZero)>>
          [] OTHER -> <<Comparator(op, M, m0, 0, <<>>)>>)
     ELSE IF IsX(m) THEN <<Comparator(">=", M, 0, 0, <<>>), Comparator("<", M + 1, 0, 0, PreZero)>>
     ELSE IF IsX(p) THEN <<Comparator(">=", M, m, 0, <<>>), Comparator("<", M, m + 1, 0, PreZero)>>
     ELSE <<Comparator(op, M, m, p, pr)>>

\* hyphenReplace: "from - to"
HyphenSet(from, to) ==
  LET fM == Comp(from, 1)  fm == Comp(from, 2)  fp == Comp(from, 3)
      tM == Comp(to, 1)    tm == Comp(to, 2)    tp == Comp(to, 3)
      lower == IF IsX(fM) THEN <<>>
               ELSE IF IsX(fm) THEN <<Comparator(">=", fM, 0, 0, <<>>)>>
               ELSE IF IsX(fp) THEN <<Comparator(">=", fM, fm, 0, <<>>)>>
               ELSE <<Comparator(">=", fM, fm, fp, from[2])>>
      upper == IF IsX(tM) THEN <<>>
               ELSE IF IsX(tm) THEN <<Comparator("<", tM + 1, 0, 0, PreZero)>>
               ELSE IF IsX(tp) THEN <<Comparator("<", tM, tm + 1, 0, PreZero)>>
               ELSE <<Comparator("<=", tM, tm, tp, to[2])>>
  IN IF Len(lower \o upper) = 0 THEN <<ANY>> ELSE lower \o upper

\* the run [v=]* that may precede a partial version: its length
RECURSIVE PrefixRun(_, _)
PrefixRun(s, i) ==
  IF i <= Len(s) /\ s[i] \in {"v", "="} THEN PrefixRun(s, i + 1) ELSE i - 1

StripPrefixRun(s) == SubSeq(s, PrefixRun(s, 1) + 1, Len(s))

\* the operator a comparator text starts with: <<operator, rest>>
SplitOperator(tok) ==
  IF Len(tok) >= 2 /\ tok[1] = "~" /\ tok[2] = ">" THEN <<"~", SubSeq(tok, 3, Len(tok))>>
  ELSE IF Len(tok) >= 1 /\ tok[1] = "~" THEN <<"~", Tail(tok)>>
  ELSE IF Len(tok) >= 1 /\ tok[1] = "^" THEN <<"^", Tail(tok)>>
  ELSE IF Len(tok) >= 2 /\ tok[1] = ">" /\ tok[2] = "=" THEN <<">=", SubSeq(tok, 3, Len(tok))>>
  ELSE IF Len(tok) >= 2 /\ tok[1] = "<" /\ tok[2] = "=" THEN <<"<=", SubSeq(tok, 3, Len(tok))>>
  ELSE IF Len(tok) >= 1 /\ tok[1] = ">" THEN <<">", Tail(tok)>>
  ELSE IF Len(tok) >= 1 /\ tok[1] = "<" THEN <<"<", Tail(tok)>>
  ELSE IF Len(tok) >= 1 /\ tok[1] = "=" THEN <<"=", Tail(tok)>>
  ELSE <<"", tok>>

\* parseComparator and new Comparator for one blank-free comparator text:
\* [ok, set], ok FALSE when the Comparator constructor throws
ParseComparator(tok) ==
  LET Parsed(op, rest, run, pt) ==
        IF Len(tok) = 0 THEN [ok |-> TRUE, set |-> <<ANY>>]
        ELSE IF Len(pt) = 0 THEN [ok |-> FALSE, set |-> <<>>]
        ELSE IF op = "^" THEN [ok |-> TRUE, set |-> CaretSet(pt)]
        ELSE IF op = "~" THEN [ok |-> TRUE, set |-> TildeSet(pt)]
        ELSE IF /\ Len(pt[1]) = 3 /\ \A i \in 1..3 : pt[1][i] >= 0
                /\ ~(run = 0 \/ (run = 1 /\ rest[1] = "v"))
             THEN [ok |-> FALSE, set |-> <<>>]
        ELSE [ok |-> TRUE, set |-> XRangeSet(op, pt)]
      Operated(so) ==
        Parsed(so[1], so[2], PrefixRun(so[2], 1), ParsePartial(StripPrefixRun(so[2])))
  IN Operated(SplitOperator(tok))

OperatorTexts ==
  { <<">">>, <<"<">>, <<"=">>, <<">", "=">>, <<"<", "=">>, <<"^">>, <<"~">>, <<"~", ">">> }

\* COMPARATORTRIM, TILDETRIM, CARETTRIM: an operator is joined to the
\* version that follows it after blanks
RECURSIVE TrimOperators(_)
TrimOperators(toks) ==
  IF Len(toks) = 0 THEN <<>>
  ELSE IF Len(toks) >= 2 /\ toks[1] \in OperatorTexts
       THEN <<toks[1] \o toks[2]>> \o TrimOperators(SubSeq(toks, 3, Len(toks)))
  ELSE <<toks[1]>> \o TrimOperators(Tail(toks))

RECURSIVE ParseComparators(_)
ParseComparators(toks) ==
  IF Len(toks) = 0 THEN [ok |-> TRUE, set |-> <<>>]
  ELSE LET Joined(c, rest) == [ok |-> c.ok /\ rest.ok, set |-> c.set \o rest.set]
       IN Joined(ParseComparator(toks[1]), ParseComparators(Tail(toks)))

\* Range.parseRange for one trimmed ||-alternative
ParseRangePart(part) ==
  LET Hyphenated(toks, from, to) ==
        IF Len(from) > 0 /\ Len(to) > 0
        THEN [ok |-> TRUE, set |-> HyphenSet(from, to)]
        ELSE ParseComparators(TrimOperators(toks))
      Tokens(toks) ==
        IF Len(toks) = 3 /\ toks[2] = <<"-">>
        THEN Hyphenated(toks, ParsePartial(StripPrefixRun(toks[1])),
                        ParsePartial(StripPrefixRun(toks[3])))
        ELSE ParseComparators(TrimOperators(toks))
  IN Tokens(Split(part, " "))

RECURSIVE ParseRangeParts(_)
ParseRangeParts(parts) ==
  IF Len(parts) = 0 THEN [ok |-> TRUE, sets |-> <<>>]
  ELSE LET Joined(r, rest) ==
             [ok |-> r.ok /\ rest.ok,
              sets |-> << [i \in 1..Len(r.set) |-> ReplaceGTE0(r.set[i])] >> \o rest.sets]
       IN Joined(ParseRangePart(Trim(parts[1])), ParseRangeParts(Tail(parts)))

\* semver.validRange(range): the parsed range, NoRange when new Range throws
ValidRange(range) ==
  LET Sets(r) == IF r.ok THEN r.sets ELSE NoRange
  IN Sets(ParseRangeParts(SplitOr(CollapseSpaces(Trim(range)))))

\* cmp(version, operator, comparator version)
Cmp(v, op, w) ==
  CASE op = ""   -> CompareVersions(v, w) = 0
    [] op = ">"  -> CompareVersions(v, w) > 0
    [] op = ">=" -> CompareVersions(v, w) >= 0
    [] op = "<"  -> CompareVersions(v, w) < 0
    [] op = "<=" -> CompareVersions(v, w) <= 0

\* Comparator.test
ComparatorTest(c, v) == IsAny(c) \/ Cmp(v, c.operator, c.semver)

\* testSet: every comparator holds, and a prerelease version is admitted only
\* by a set with a prerelease comparator on the same major.minor.patch
TestSet(set, v) ==
  /\ \A i \in 1..Len(set) : ComparatorTest(set[i], v)
  /\ (Len(Pre(v)) > 0 =>
        \E i \in 1..Len(set) :
          /\ ~IsAny(set[i])
          /\ Len(Pre(set[i].semver)) > 0
          /\ CompareMain(set[i].semver, v) = 0)

\* Range.test for a parsed version and a parsed range
RangeTest(range, v) == \E i \in 1..Len(range) : TestSet(range[i], v)

\* position of the first digit of s at or after i, 0 when there is none
RECURSIVE FirstDigit(_, _)
FirstDigit(s, i) ==
  IF i > Len(s) THEN 0 ELSE IF IsDigit(s[i]) THEN i ELSE FirstDigit(s, i + 1)

\* semver.coerce(text): the first run of digits is the major version, a
\* following ".digits" the minor and then the patch version, a missing one 0;
\* the result is parsed strictly, so a component with a leading zero gives null
Coerce(s) ==
  LET i  == FirstDigit(s, 1)
      e1 == DigitRunEnd(s, i)
      hasMinor == e1 < Len(s) /\ s[e1] = "." /\ IsDigit(s[e1 + 1])
      e2 == IF hasMinor THEN DigitRunEnd(s, e1 + 1) ELSE e1
      hasPatch == hasMinor /\ e2 < Len(s) /\ s[e2] = "." /\ IsDigit(s[e2 + 1])
      e3 == IF hasPatch THEN DigitRunEnd(s, e2 + 1) ELSE e2
      major == SubSeq(s, i, e1 - 1)
      minor == IF hasMinor THEN SubSeq(s, e1 + 1, e2 - 1) ELSE <<"0">>
      patch == IF hasPatch THEN SubSeq(s, e2 + 1, e3 - 1) ELSE <<"0">>
  IN IF i = 0 THEN NoVersion
     ELSE ParseVersion(major \o <<".">> \o minor \o <<".">> \o patch)

\* semver.satisfies(version text, range): false for a text that is no version
Satisfies(version, range) ==
  LET Test(v) == Len(v) > 0 /\ Len(range) > 0 /\ RangeTest(range, v)
  IN Test(ParseVersion(version))

\* the text SemVer.version of a parsed version without prerelease tag
VersionText(v) ==
  NatText(Major(v)) \o <<".">> \o NatText(Minor(v)) \o <<".">> \o NatText(Patch(v))

(***************************************************************************)
(* compatibility.ts: normalizePeerDepRange, checkReactCompatibility        *)
(***************************************************************************)

\* true when the text at position i matches \s*- (the look-ahead of the
\* padding expressions)
HyphenAhead(s, i) ==
  LET j == SkipSpaces(s, i) IN j <= Len(s) /\ s[j] = "-"

\* true when the text at position i matches \.\d
DotDigitAhead(s, i) == i < Len(s) /\ s[i] = "." /\ IsDigit(s[i + 1])

\* both negative look-aheads (?!\.\d)(?!\s*-) at position i
PadAllowedAt(s, i) == ~DotDigitAhead(s, i) /\ ~HyphenAhead(s, i)

\* the greedy \d+ that starts at position from and may give back digits:
\* the largest end e (exclusive) in from+1..max at which the look-aheads
\* hold, 0 when there is none
RECURSIVE LongestPadEnd(_, _, _)
LongestPadEnd(s, from, e) ==
  IF e <= from THEN 0
  ELSE IF PadAllowedAt(s, e) THEN e
  ELSE LongestPadEnd(s, from, e - 1)

\* range.replace(/\s*\|\|\s*/g, ' || ')
RECURSIVE ReplaceOrFrom(_, _)
ReplaceOrFrom(s, i) ==
  IF i > Len(s) THEN <<>>
  ELSE LET j == SkipSpaces(s, i)
       IN IF j < Len(s) /\ s[j] = "|" /\ s[j + 1] = "|"
          THEN <<" ", "|", "|", " ">> \o ReplaceOrFrom(s, SkipSpaces(s, j + 2))
          ELSE <<s[i]>> \o ReplaceOrFrom(s, i + 1)

ReplaceOr(s) == ReplaceOrFrom(s, 1)

\* range.replace(/(\d+\.\d+)(?!\.\d)(?!\s*-)/g, '$1.0')
RECURSIVE PadMinorFrom(_, _)
PadMinorFrom(s, i) ==
  IF i > Len(s) THEN <<>>
  ELSE LET e1 == DigitRunEnd(s, i)
           dotted == e1 > i /\ e1 < Len(s) /\ s[e1] = "." /\ IsDigit(s[e1 + 1])
           e == IF dotted THEN LongestPadEnd(s, e1 + 1, DigitRunEnd(s, e1 + 1)) ELSE 0
       IN IF e > 0
          THEN SubSeq(s, i, e - 1) \o <<".", "0">> \o PadMinorFrom(s, e)
          ELSE <<s[i]>> \o PadMinorFrom(s, i + 1)

PadMinor(s) == PadMinorFrom(s, 1)

\* range.replace(/(?<![.\d])(\d+)(?!\.\d)(?!\s*-)/g, '$1.0.0')
RECURSIVE PadMajorFrom(_, _)
PadMajorFrom(s, i) ==
  IF i > Len(s) THEN <<>>
  ELSE LET behind == i > 1 /\ (s[i - 1] = "." \/ IsDigit(s[i - 1]))
           e == IF IsDigit(s[i]) /\ ~behind
                THEN LongestPadEnd(s, i, DigitRunEnd(s, i)) ELSE 0
       IN IF e > 0
          THEN SubSeq(s, i, e - 1) \o <<".", "0", ".", "0">> \o PadMajorFrom(s, e)
          ELSE <<s[i]>> \o PadMajorFrom(s, i + 1)

PadMajor(s) == PadMajorFrom(s, 1)

\* the manual normalization of normalizePeerDepRange (lines 57-66)
TolerantRewrite(range) == PadMajor(PadMinor(ReplaceOr(Trim(range))))

\* normalizePeerDepRange: strict validation first, then validation of the
\* rewritten text
normalizePeerDepRange(range) ==
  LET OrRewritten(validRange) ==
        IF Len(validRange) > 0 THEN validRange
        ELSE ValidRange(TolerantRewrite(range))
  IN OrRewritten(ValidRange(range))

\* checkReactCompatibility with the unsatisfied case reported as unknown
checkReactCompatibility_unsatisfiedUnknown(reactVersion, peerDependencyRange) ==
  IF peerDependencyRange = NULL \/ Len(peerDependencyRange) = 0 THEN "unknown"
  ELSE LET Decide(normalizedRange, coercedVersion) ==
             IF Len(normalizedRange) = 0 THEN "unknown"
             ELSE IF Len(coercedVersion) = 0 THEN "unknown"
             ELSE IF Satisfies(VersionText(coercedVersion), normalizedRange)
                  THEN "compatible"
             ELSE "unknown"
       IN Decide(normalizePeerDepRange(peerDependencyRange), Coerce(reactVersion))

\* checkReactCompatibility without the early returns for a null normalized
\* range and a null coerced version: semver.satisfies answers false for them
checkReactCompatibility_noNullChecks(reactVersion, peerDependencyRange) ==
  IF peerDependencyRange = NULL \/ Len(peerDependencyRange) = 0 THEN "unknown"
  ELSE LET Decide(normalizedRange, coercedVersion) ==
             IF /\ Len(normalizedRange) > 0
                /\ Len(coercedVersion) > 0
                /\ Satisfies(VersionText(coercedVersion), normalizedRange)
             THEN "compatible"
             ELSE "incompatible"
       IN Decide(normalizePeerDepRange(peerDependencyRange), Coerce(reactVersion))

\* checkReactCompatibility(reactVersion, peerDependencyRange): peerDependencyRange
\* is a text or NULL (undefined)
checkReactCompatibility(reactVersion, peerDependencyRange) ==
  IF peerDependencyRange = NULL \/ Len(peerDependencyRange) = 0 THEN "unknown"
  ELSE LET Decide(normalizedRange, coercedVersion) ==
             IF Len(normalizedRange) = 0 THEN "unknown"
             ELSE IF Len(coercedVersion) = 0 THEN "unknown"
             ELSE IF Satisfies(VersionText(coercedVersion), normalizedRange)
                  THEN "compatible"
             ELSE "incompatible"
       IN Decide(normalizePeerDepRange(peerDependencyRange), Coerce(reactVersion))

(***************************************************************************)
(* compatibility.ts: the version search.  metadata.versions is a list of   *)
(* entries [version, react] in the key order of the registry document,     *)
(* react being peerDependencies.react: a text, or NULL when undefined.     *)
(***************************************************************************)

\* what a call leaves behind when semver throws a TypeError (Invalid Version)
TypeError == <<"<TypeError>">>

\* semver.prerelease(version): truthy for a valid version with a prerelease tag
HasPrerelease(version) ==
  LET Tagged(v) == Len(v) > 0 /\ Len(Pre(v)) > 0
  IN Tagged(ParseVersion(version))

\* semver.compare(a, b) for valid versions
Compare(a, b) == CompareVersions(ParseVersion(a), ParseVersion(b))

\* semver.gt(a, b), semver.lte(a, b) for valid versions
Gt(a, b) == Compare(a, b) > 0

\* getReactPeerDep(versionMeta)
getReactPeerDep(versionMeta) == versionMeta.react

\* a truthy string: neither undefined/null nor empty
Truthy(text) == text # NULL /\ Len(text) > 0

\* x put into an ascending list behind every element that does not compare above it
RECURSIVE InsertAscending(_, _)
InsertAscending(x, sorted) ==
  IF Len(sorted) = 0 THEN <<x>>
  ELSE IF Compare(sorted[1], x) <= 0 THEN <<sorted[1]>> \o InsertAscending(x, Tail(sorted))
  ELSE <<x>> \o sorted

\* list.sort((a, b) => semver.compare(a, b)): a stable sort
RECURSIVE SortAscending(_)
SortAscending(list) ==
  IF Len(list) = 0 THEN <<>>
  ELSE InsertAscending(list[Len(list)], SortAscending(SubSeq(list, 1, Len(list) - 1)))

RECURSIVE InsertDescending(_, _)
InsertDescending(x, sorted) ==
  IF Len(sorted) = 0 THEN <<x>>
  ELSE IF Compare(x, sorted[1]) <= 0 THEN <<sorted[1]>> \o InsertDescending(x, Tail(sorted))
  ELSE <<x>> \o sorted

\* list.sort((a, b) => semver.rcompare(a, b))
RECURSIVE SortDescending(_)
SortDescending(list) ==
  IF Len(list) = 0 THEN <<>>
  ELSE InsertDescending(list[Len(list)], SortDescending(SubSeq(list, 1, Len(list) - 1)))

\* Object.keys(metadata.versions)
Keys(versions) == [i \in 1..Len(versions) |-> versions[i].version]

\* metadata.versions[version]: the entry of that key (the key is present)
VersionMeta(versions, version) ==
  versions[CHOOSE i \in 1..Len(versions) : versions[i].version = version]

\* versions.filter(v => !semver.prerelease(v))
RECURSIVE FilterReleases(_)
FilterReleases(list) ==
  IF Len(list) = 0 THEN <<>>
  ELSE (IF ~HasPrerelease(list[1]) THEN <<list[1]>> ELSE <<>>) \o FilterReleases(Tail(list))

\* the filter with semver.gte in the place of semver.gt
NearestCandidate_gte(versions, installedVersion, targetReactVersion, version) ==
  /\ ~HasPrerelease(version)
  /\ Compare(version, installedVersion) >= 0
  /\ Truthy(getReactPeerDep(VersionMeta(versions, version)))
  /\ checkReactCompatibility(targetReactVersion,
                             getReactPeerDep(VersionMeta(versions, version))) = "compatible"

\* the filter of findNearestCompatibleVersion (lines 94-108)
NearestCandidate(versions, installedVersion, targetReactVersion, version) ==
  /\ ~HasPrerelease(version)
  /\ Gt(version, installedVersion)
  /\ Truthy(getReactPeerDep(VersionMeta(versions, version)))
  /\ checkReactCompatibility(targetReactVersion,
                             getReactPeerDep(VersionMeta(versions, version))) = "compatible"

\* semver.gt throws for a text that is no version: the filter reaches the
\* comparison for every key without prerelease tag
NearestThrows(versions, installedVersion) ==
  \E i \in 1..Len(versions) :
    /\ ~HasPrerelease(versions[i].version)
    /\ (~IsValidVersion(versions[i].version) \/ ~IsValidVersion(installedVersion))

\* versions.filter(...) of findNearestCompatibleVersion, in key order
RECURSIVE FilterNearest(_, _, _, _)
FilterNearest(versions, installedVersion, targetReactVersion, list) ==
  IF Len(list) = 0 THEN <<>>
  ELSE (IF NearestCandidate(versions, installedVersion, targetReactVersion, list[1])
        THEN <<list[1]>> ELSE <<>>)
       \o FilterNearest(versions, installedVersion, targetReactVersion, Tail(list))

\* findNearestCompatibleVersion, on the fetched metadata.versions
findNearestCompatibleVersion(versions, installedVersion, targetReactVersion) ==
  IF NearestThrows(versions, installedVersion) THEN TypeError
  ELSE LET Lowest(compatibleVersions) ==
             IF Len(compatibleVersions) = 0 THEN NULL
             ELSE SortAscending(compatibleVersions)[1]
       IN Lowest(FilterNearest(versions, installedVersion, targetReactVersion,
                               Keys(versions)))

\* the first version of the list whose React peer range admits the target
RECURSIVE FirstCompatible(_, _, _)
FirstCompatible(versions, sortedVersions, targetReactVersion) ==
  IF Len(sortedVersions) = 0 THEN NULL
  ELSE LET reactPeerDep == getReactPeerDep(VersionMeta(versions, sortedVersions[1]))
       IN IF /\ Truthy(reactPeerDep)
             /\ checkReactCompatibility(targetReactVersion, reactPeerDep) = "compatible"
          THEN sortedVersions[1]
          ELSE FirstCompatible(versions, Tail(sortedVersions), targetReactVersion)

\* the latest search scanning in ascending order (compare for rcompare)
findLatestCompatibleVersion_ascending(versions, targetReactVersion) ==
  LET sortedVersions == SortAscending(FilterReleases(Keys(versions)))
  IN FirstCompatible(versions, sortedVersions, targetReactVersion)

\* findLatestCompatibleVersion, on the fetched metadata.versions
findLatestCompatibleVersion(versions, targetReactVersion) ==
  LET sortedVersions == SortDescending(FilterReleases(Keys(versions)))
  IN FirstCompatible(versions, sortedVersions, targetReactVersion)


(***************************************************************************)
(* The upgrader (output.ts, lines 202-422).  A DependencyAnalysis is the   *)
(* record [name, installedVersion, status, nearestCompatibleVersion,       *)
(* latestVersion, dependencyType, requiredUpgradesForNearest,              *)
(* requiredUpgradesForLatest], an UpgradeSelection [packageName, action,   *)
(* targetVersion], a RequiredUpgrade [name, currentVersion,                *)
(* requiredVersion].  Package names are strings, versions and ranges texts.*)
(***************************************************************************)
FixModes == {"nearest", "latest", "none"}

DependencyTypes == <<"dependencies", "devDependencies", "optionalDependencies">>

\* result.dependencies.filter(d => d.status === 'incompatible')
RECURSIVE incompatibleDeps(_)
incompatibleDeps(dependencies) ==
  IF Len(dependencies) = 0 THEN <<>>
  ELSE (IF dependencies[1].status = "incompatible" THEN <<dependencies[1]>> ELSE <<>>)
       \o incompatibleDeps(Tail(dependencies))

Selection(packageName, action, targetVersion) ==
  [packageName |-> packageName, action |-> action, targetVersion |-> targetVersion]

\* applyFixMode without the early return of mode 'none'
applyFixMode_noneFallsThrough(deps, fixMode) ==
  [i \in 1..Len(deps) |->
     IF fixMode = "nearest" /\ Truthy(deps[i].nearestCompatibleVersion)
     THEN Selection(deps[i].name, "nearest-compatible", deps[i].nearestCompatibleVersion)
     ELSE Selection(deps[i].name, "latest", deps[i].latestVersion)]

\* applyFixMode whose mode 'nearest' does not look whether a nearest version exists
applyFixMode_noFallback(deps, fixMode) ==
  IF fixMode = "none"
  THEN [i \in 1..Len(deps) |-> Selection(deps[i].name, "skip", NULL)]
  ELSE [i \in 1..Len(deps) |->
          IF fixMode = "nearest"
          THEN Selection(deps[i].name, "nearest-compatible", deps[i].nearestCompatibleVersion)
          ELSE Selection(deps[i].name, "latest", deps[i].latestVersion)]

\* applyFixMode that takes the nearest version, when there is one, in every mode
applyFixMode_nearestInEveryMode(deps, fixMode) ==
  IF fixMode = "none"
  THEN [i \in 1..Len(deps) |-> Selection(deps[i].name, "skip", NULL)]
  ELSE [i \in 1..Len(deps) |->
          IF Truthy(deps[i].nearestCompatibleVersion)
          THEN Selection(deps[i].name, "nearest-compatible", deps[i].nearestCompatibleVersion)
          ELSE Selection(deps[i].name, "latest", deps[i].latestVersion)]

\* applyFixMode (lines 220-256)
applyFixMode(deps, fixMode) ==
  IF fixMode = "none"
  THEN [i \in 1..Len(deps) |-> Selection(deps[i].name, "skip", NULL)]
  ELSE [i \in 1..Len(deps) |->
          IF fixMode = "nearest" /\ Truthy(deps[i].nearestCompatibleVersion)
          THEN Selection(deps[i].name, "nearest-compatible", deps[i].nearestCompatibleVersion)
          ELSE IF fixMode = "latest"
          THEN Selection(deps[i].name, "latest", deps[i].latestVersion)
          ELSE Selection(deps[i].name, "latest", deps[i].latestVersion)]

\* the choices promptUpgradeActions offers for a record (prompts.ts, lines 76-92)
PromptChoices(dep) ==
  (IF Truthy(dep.nearestCompatibleVersion) THEN {"nearest-compatible"} ELSE {})
    \cup {"latest", "skip"}

\* promptUpgradeActions that keeps the latest version as target of a skipped record
promptUpgradeActions_skipKeepsTarget(deps, answers) ==
  [i \in 1..Len(deps) |->
     Selection(deps[i].name, answers[i],
               IF answers[i] = "nearest-compatible" THEN deps[i].nearestCompatibleVersion
               ELSE deps[i].latestVersion)]

\* promptUpgradeActions (prompts.ts, lines 62-119), answers[i] the action the
\* user picks for the i-th record
promptUpgradeActions(deps, answers) ==
  [i \in 1..Len(deps) |->
     Selection(deps[i].name, answers[i],
               IF answers[i] = "nearest-compatible" THEN deps[i].nearestCompatibleVersion
               ELSE IF answers[i] = "latest" THEN deps[i].latestVersion
               ELSE NULL)]

\* index of allDeps.find(d => d.name === packageName), 0 for undefined
RECURSIVE FindFrom(_, _, _)
FindFrom(allDeps, packageName, i) ==
  IF i > Len(allDeps) THEN 0
  ELSE IF allDeps[i].name = packageName THEN i
  ELSE FindFrom(allDeps, packageName, i + 1)

Find(allDeps, packageName) == FindFrom(allDeps, packageName, 1)

\* the companion list always taken from requiredUpgradesForLatest
ChosenUpgrades_alwaysLatest(selection, dep) == dep.requiredUpgradesForLatest

\* the companion list of the selected action (lines 276-279)
ChosenUpgrades(selection, dep) ==
  IF selection.action = "nearest-compatible"
  THEN dep.requiredUpgradesForNearest
  ELSE dep.requiredUpgradesForLatest

\* the inner loop pushing every entry, seen or not
RECURSIVE PushUnseen_noDedup(_, _)
PushUnseen_noDedup(upgrades, acc) ==
  IF Len(upgrades) = 0 THEN acc
  ELSE PushUnseen_noDedup(Tail(upgrades),
         [companionUpgrades |-> Append(acc.companionUpgrades, upgrades[1]),
          seen |-> acc.seen \cup {upgrades[1].name}])

\* the inner loop of collectCompanionUpgrades (lines 281-286); acc holds the
\* list companionUpgrades and the set seen
RECURSIVE PushUnseen(_, _)
PushUnseen(upgrades, acc) ==
  IF Len(upgrades) = 0 THEN acc
  ELSE PushUnseen(Tail(upgrades),
         IF upgrades[1].name \notin acc.seen
         THEN [companionUpgrades |-> Append(acc.companionUpgrades, upgrades[1]),
               seen |-> acc.seen \cup {upgrades[1].name}]
         ELSE acc)

\* the outer loop of collectCompanionUpgrades (lines 269-287)
RECURSIVE CollectFrom(_, _, _, _)
CollectFrom(selections, allDeps, i, acc) ==
  IF i > Len(selections) THEN acc.companionUpgrades
  ELSE IF selections[i].action = "skip" THEN CollectFrom(selections, allDeps, i + 1, acc)
  ELSE IF Find(allDeps, selections[i].packageName) = 0
       THEN CollectFrom(selections, allDeps, i + 1, acc)
  ELSE LET dep == allDeps[Find(allDeps, selections[i].packageName)]
       IN CollectFrom(selections, allDeps, i + 1,
                      PushUnseen(ChosenUpgrades(selections[i], dep), acc))

\* collectCompanionUpgrades (lines 262-290)
collectCompanionUpgrades(selections, allDeps) ==
  CollectFrom(selections, allDeps, 1, [companionUpgrades |-> <<>>, seen |-> {}])

\* The manifest (PackageJson) is a function from the names of the sections it
\* has to the sections, a section a function from package names to range
\* texts.  A state of updatePackageJson is [packageJson, writes]: the manifest
\* object in memory and the assignments made to it so far, in order.

\* packageJson[section][name] = value
Assign(st, section, name, value) ==
  [packageJson |-> [st.packageJson EXCEPT ![section] = (name :> value) @@ @],
   writes |-> Append(st.writes, [section |-> section, name |-> name, value |-> value])]

\* selections.filter(s => s.action !== 'skip' && s.targetVersion) (line 301)
RECURSIVE FilterUpgrades(_)
FilterUpgrades(selections) ==
  IF Len(selections) = 0 THEN <<>>
  ELSE (IF selections[1].action # "skip" /\ Truthy(selections[1].targetVersion)
        THEN <<selections[1]>> ELSE <<>>)
       \o FilterUpgrades(Tail(selections))

\* the loop over the main packages (lines 304-328)
RECURSIVE UpdateMain(_, _, _, _)
UpdateMain(upgrades, allDeps, i, st) ==
  IF i > Len(upgrades) THEN st
  ELSE IF Find(allDeps, upgrades[i].packageName) = 0 \/ ~Truthy(upgrades[i].targetVersion)
       THEN UpdateMain(upgrades, allDeps, i + 1, st)
  ELSE LET dep == allDeps[Find(allDeps, upgrades[i].packageName)]
           newVersion == <<"^">> \o upgrades[i].targetVersion
       IN IF dep.dependencyType \in DOMAIN st.packageJson
          THEN UpdateMain(upgrades, allDeps, i + 1,
                          Assign(st, dep.dependencyType, upgrades[i].packageName, newVersion))
          ELSE UpdateMain(upgrades, allDeps, i + 1, st)

\* the test of the section alone, whatever it declares
Declares_sectionOnly(packageJson, section, name) == section \in DOMAIN packageJson

\* packageJson.<section>?.[name] is truthy
Declares(packageJson, section, name) ==
  /\ section \in DOMAIN packageJson
  /\ name \in DOMAIN packageJson[section]
  /\ Truthy(packageJson[section][name])

\* the loop over the companion packages (lines 334-343)
RECURSIVE UpdateCompanions(_, _, _)
UpdateCompanions(companionUpgrades, i, st) ==
  IF i > Len(companionUpgrades) THEN st
  ELSE LET companion == companionUpgrades[i]
       IN IF Declares(st.packageJson, "dependencies", companion.name)
          THEN UpdateCompanions(companionUpgrades, i + 1,
                 Assign(st, "dependencies", companion.name, companion.requiredVersion))
          ELSE IF Declares(st.packageJson, "devDependencies", companion.name)
          THEN UpdateCompanions(companionUpgrades, i + 1,
                 Assign(st, "devDependencies", companion.name, companion.requiredVersion))
          ELSE IF Declares(st.packageJson, "optionalDependencies", companion.name)
          THEN UpdateCompanions(companionUpgrades, i + 1,
                 Assign(st, "optionalDependencies", companion.name, companion.requiredVersion))
          ELSE UpdateCompanions(companionUpgrades, i + 1, st)

\* updatePackageJson up to the write of the file (lines 300-357), on the
\* manifest read from disk: the manifest to be written and the assignments made
updatePackageJson(packageJson, selections, allDeps, includeCompanions) ==
  LET upgrades == FilterUpgrades(selections)
      main == UpdateMain(upgrades, allDeps, 1, [packageJson |-> packageJson, writes |-> <<>>])
  IN IF includeCompanions
     THEN UpdateCompanions(collectCompanionUpgrades(selections, allDeps), 1, main)
     ELSE main

\* the selections unfiltered
NonSkip_unfiltered(selections) == selections

\* selections.filter(s => s.action !== 'skip') of applyUpgrades (line 408)
RECURSIVE NonSkip(_)
NonSkip(selections) ==
  IF Len(selections) = 0 THEN <<>>
  ELSE (IF selections[1].action # "skip" THEN <<selections[1]>> ELSE <<>>)
       \o NonSkip(Tail(selections))

(***************************************************************************)
(* The registry client (part_003, lines 121-259): the list of React        *)
(* versions and the resolution of the version the user names.  A response  *)
(* of the registry is [ok, latest, versions]: ok is FALSE when the request *)
(* fails, latest is dist-tags.latest, versions lists metadata.versions in  *)
(* key order.                                                              *)
(***************************************************************************)
\* what a call leaves behind when it throws an Error
Thrown == <<"<Error>">>

\* parseInt(text, 10) of a text that starts with neither blank nor sign: the
\* value of its leading digits, NaN (written -1) when it starts with none
ParseInt(s) ==
  LET Value(e) == IF e = 1 THEN -1 ELSE ParseNat(SubSeq(s, 1, e - 1))
  IN Value(DigitRunEnd(s, 1))

\* a.split('.').map(p => parseInt(p, 10) || 0) (line 171)
VersionParts(a) ==
  LET Ints(parts) ==
        [i \in 1..Len(parts) |-> IF ParseInt(parts[i]) > 0 THEN ParseInt(parts[i]) ELSE 0]
  IN Ints(Split(a, "."))

\* aParts[i] || 0 (lines 175-176)
PartAt(parts, i) == IF i <= Len(parts) THEN parts[i] ELSE 0

\* the comparator of fetchReactVersions (lines 174-181): below 0 when a is
\* to stand before b
RECURSIVE ComparePartsFrom(_, _, _)
ComparePartsFrom(aParts, bParts, i) ==
  IF i > Len(aParts) /\ i > Len(bParts) THEN 0
  ELSE IF PartAt(aParts, i) # PartAt(bParts, i)
       THEN PartAt(bParts, i) - PartAt(aParts, i)
  ELSE ComparePartsFrom(aParts, bParts, i + 1)

CompareParts(a, b) == ComparePartsFrom(VersionParts(a), VersionParts(b), 1)

RECURSIVE InsertNewestFirst(_, _)
InsertNewestFirst(x, sorted) ==
  IF Len(sorted) = 0 THEN <<x>>
  ELSE IF CompareParts(sorted[1], x) <= 0
       THEN <<sorted[1]>> \o InsertNewestFirst(x, Tail(sorted))
  ELSE <<x>> \o sorted

\* versions.sort(...) of fetchReactVersions: a stable sort, newest first
RECURSIVE SortNewestFirst(_)
SortNewestFirst(list) ==
  IF Len(list) = 0 THEN <<>>
  ELSE InsertNewestFirst(list[Len(list)], SortNewestFirst(SubSeq(list, 1, Len(list) - 1)))

\* fetchReactVersions (lines 165-183), on the response for 'react'
fetchReactVersions(doc) == SortNewestFirst(Keys(doc.versions))

\* allVersions.includes(versionInput)
Includes(list, x) == \E i \in 1..Len(list) : list[i] = x

\* the predicate of the search for a major version (lines 233-236)
IsStableOfMajor(v, major) ==
  /\ IndexOf(v, "-") = 0
  /\ ParseInt(Split(v, ".")[1]) = major

\* the predicate of the search for a minor version (lines 247-251)
IsStableOfMinor(v, major, minor) ==
  /\ IndexOf(v, "-") = 0
  /\ Len(Split(v, ".")) >= 2
  /\ Split(v, ".")[1] = major
  /\ Split(v, ".")[2] = minor

\* versionInput.match(/^(\d+)$/)
IsMajorInput(versionInput) == AllDigits(versionInput)

\* versionInput.match(/^(\d+)\.(\d+)$/)
IsMinorInput(versionInput) ==
  /\ Len(Split(versionInput, ".")) = 2
  /\ AllDigits(Split(versionInput, ".")[1])
  /\ AllDigits(Split(versionInput, ".")[2])

\* resolveReactVersion accepting every input it cannot resolve as it is
resolveReactVersion_acceptsAnything(versionInput, doc) ==
  IF ~doc.ok THEN Thrown ELSE versionInput

\* resolveReactVersion (lines 220-259), on the response for 'react': the exact
\* version, or Thrown
resolveReactVersion(versionInput, doc) ==
  IF ~doc.ok THEN Thrown
  ELSE LET FirstOr(matches, otherwise) ==
             IF Len(matches) > 0 THEN matches[1] ELSE otherwise
           Resolved(allVersions) ==
             IF Includes(allVersions, versionInput) THEN versionInput
             ELSE FirstOr(
                    IF IsMajorInput(versionInput)
                    THEN SelectSeq(allVersions,
                                   LAMBDA v : IsStableOfMajor(v, ParseNat(versionInput)))
                    ELSE <<>>,
                    FirstOr(
                      IF IsMinorInput(versionInput)
                      THEN SelectSeq(allVersions,
                                     LAMBDA v : IsStableOfMinor(v, Split(versionInput, ".")[1],
                                                                Split(versionInput, ".")[2]))
                      ELSE <<>>,
                      Thrown))
       IN Resolved(fetchReactVersions(doc))

\* the versions promptReactVersion lets the user pick from (prompts.ts, lines
\* 16-19 and 38-45): versions without prerelease tag
StableVersions(doc) ==
  {v \in {Keys(doc.versions)[i] : i \in 1..Len(doc.versions)} : IndexOf(v, "-") = 0}

(***************************************************************************)
(* The analysis of a project (part_003, lines 38-119; compatibility.ts,    *)
(* lines 151-346; part_004, lines 8-50).  The entries of a JSON object are *)
(* listed as a sequence of [name, range] in key order; a version of a      *)
(* registry response is [version, react, dependencies, peerDependencies],  *)
(* react being peerDependencies.react and peerDependencies its other       *)
(* entries.  The record analyzeDependency returns is [name,                *)
(* installedVersion, status, supportedReactRange,                          *)
(* nearestCompatibleVersion, latestVersion, dependencyType,                *)
(* requiredUpgrades].                                                      *)
(***************************************************************************)
\* text.replace(/^[\^~>=<]+/, '')
RECURSIVE StripOperators(_)
StripOperators(text) ==
  IF Len(text) > 0 /\ text[1] \in {"^", "~", ">", "=", "<"}
  THEN StripOperators(Tail(text))
  ELSE text

\* end (exclusive) of a match of \d+\.\d+\.\d+ that starts at position i, 0
\* when there is none
VersionMatchEnd(s, i) ==
  LET Third(e2) ==
        IF e2 < Len(s) /\ s[e2] = "." /\ IsDigit(s[e2 + 1])
        THEN DigitRunEnd(s, e2 + 1) ELSE 0
      Second(e1) ==
        IF e1 < Len(s) /\ s[e1] = "." /\ IsDigit(s[e1 + 1])
        THEN Third(DigitRunEnd(s, e1 + 1)) ELSE 0
  IN IF i <= Len(s) /\ IsDigit(s[i]) THEN Second(DigitRunEnd(s, i)) ELSE 0

\* cleaned.match(/\d+\.\d+\.\d+/): the leftmost match, <<>> for null
RECURSIVE MatchVersionFrom(_, _)
MatchVersionFrom(s, i) ==
  IF i > Len(s) THEN <<>>
  ELSE IF VersionMatchEnd(s, i) > 0 THEN SubSeq(s, i, VersionMatchEnd(s, i) - 1)
  ELSE MatchVersionFrom(s, i + 1)

\* extractInstalledVersion (part_003, lines 113-119)
extractInstalledVersion(versionRange) ==
  LET OrRange(match) == IF Len(match) > 0 THEN match ELSE versionRange
  IN OrRange(MatchVersionFrom(StripOperators(versionRange), 1))

\* the order the keys of the objects of the model are listed in
PackageNames ==
  <<"react", "react-dom", "react-final-form", "final-form", "react-redux", "tslib">>

\* Object.entries(packageJson[section]), or nothing without the section
SectionEntries(packageJson, section) ==
  IF section \notin DOMAIN packageJson THEN <<>>
  ELSE LET names == SelectSeq(PackageNames, LAMBDA n : n \in DOMAIN packageJson[section])
       IN [i \in 1..Len(names) |->
             [name |-> names[i], version |-> packageJson[section][names[i]], type |-> section]]

\* getDependencies (part_003, lines 38-69)
getDependencies(packageJson, opts) ==
  SectionEntries(packageJson, "dependencies")
    \o (IF opts.includeDev THEN SectionEntries(packageJson, "devDependencies") ELSE <<>>)
    \o (IF opts.includeOptional
        THEN SectionEntries(packageJson, "optionalDependencies") ELSE <<>>)

\* packageJson[section] || {}
SectionOrEmpty(packageJson, section) ==
  IF section \in DOMAIN packageJson THEN packageJson[section] ELSE <<>>

\* projectDependencies of analyzeProject (part_004, lines 20-24): a later
\* section overrides an earlier one
ProjectDependencies(packageJson) ==
  SectionOrEmpty(packageJson, "optionalDependencies")
    @@ SectionOrEmpty(packageJson, "devDependencies")
    @@ SectionOrEmpty(packageJson, "dependencies")

\* index in versions of the first version of the list that is not above the
\* target, of the last of the list when there is none
RECURSIVE ClosestIn(_, _, _)
ClosestIn(versions, sorted, targetVersion) ==
  IF Len(sorted) = 1 \/ Compare(sorted[1], targetVersion) <= 0
  THEN CHOOSE i \in 1..Len(versions) : versions[i].version = sorted[1]
  ELSE ClosestIn(versions, Tail(sorted), targetVersion)

\* metadata.versions[cleanVersion] || findClosestVersion(metadata.versions,
\* cleanVersion) (lines 235-236 and 302-323): the index of the version found,
\* 0 for undefined, -1 when semver throws on a text that is no version
findClosestVersion(versions, targetVersion) ==
  LET Closest(availableVersions) ==
        IF Includes(Keys(versions), targetVersion)
        THEN CHOOSE i \in 1..Len(versions) : versions[i].version = targetVersion
        ELSE IF Len(availableVersions) = 0 THEN 0
        ELSE IF \/ ~IsValidVersion(targetVersion)
                \/ \E i \in 1..Len(availableVersions) : ~IsValidVersion(availableVersions[i])
             THEN -1
        ELSE ClosestIn(versions, SortDescending(availableVersions), targetVersion)
  IN Closest(FilterReleases(Keys(versions)))

\* a RequiredUpgrade (lines 201-205)
RequiredUpgrade(name, currentVersion, requiredVersion) ==
  [name |-> name, currentVersion |-> currentVersion, requiredVersion |-> requiredVersion]

\* the entry of a name in a list of entries: its index, 0 when it has none
RECURSIVE EntryIndexFrom(_, _, _)
EntryIndexFrom(entries, name, i) ==
  IF i > Len(entries) THEN 0
  ELSE IF entries[i].name = name THEN i
  ELSE EntryIndexFrom(entries, name, i + 1)

EntryIndex(entries, name) == EntryIndexFrom(entries, name, 1)

\* targetVersionMeta.peerDependencies || {} (line 167)
PeerEntries(versionMeta) ==
  (IF versionMeta.react # NULL
   THEN <<[name |-> "react", range |-> versionMeta.react]>> ELSE <<>>)
    \o versionMeta.peerDependencies

\* the spread with the declared dependencies written over the peer dependencies
TargetDeps_dependenciesWin(dependencies, peerDeps) ==
  dependencies \o SelectSeq(peerDeps, LAMBDA e : EntryIndex(dependencies, e.name) = 0)

\* {...dependencies, ...filteredPeerDeps} (lines 175-178): a key of both
\* keeps its place among the dependencies and takes the peer's value
TargetDeps(dependencies, peerDeps) ==
  [i \in 1..Len(dependencies) |->
     IF EntryIndex(peerDeps, dependencies[i].name) > 0
     THEN peerDeps[EntryIndex(peerDeps, dependencies[i].name)]
     ELSE dependencies[i]]
    \o SelectSeq(peerDeps, LAMBDA e : EntryIndex(dependencies, e.name) = 0)

\* the loop over the required entries (lines 181-210)
RECURSIVE RequiredFrom(_, _)
RequiredFrom(targetDeps, projectDependencies) ==
  IF Len(targetDeps) = 0 THEN <<>>
  ELSE LET depName == targetDeps[1].name
           requiredRange == targetDeps[1].range
           Checked(cleanCurrentVersion, normalizedRange) ==
             IF Len(normalizedRange) > 0 /\ ~Satisfies(cleanCurrentVersion, normalizedRange)
             THEN <<RequiredUpgrade(depName, cleanCurrentVersion, requiredRange)>>
             ELSE <<>>
       IN (IF depName = "react" \/ depName = "react-dom" THEN <<>>
           ELSE IF depName \notin DOMAIN projectDependencies THEN <<>>
           ELSE IF ~Truthy(projectDependencies[depName]) THEN <<>>
           ELSE Checked(StripOperators(projectDependencies[depName]),
                        ValidRange(requiredRange)))
          \o RequiredFrom(Tail(targetDeps), projectDependencies)

\* analyzeRequiredUpgrades (lines 151-216), on the response for the package
analyzeRequiredUpgrades(doc, targetVersion, projectDependencies) ==
  IF ~doc.ok THEN <<>>
  ELSE IF ~Includes(Keys(doc.versions), targetVersion) THEN <<>>
  ELSE LET Required(targetVersionMeta) ==
             RequiredFrom(TargetDeps(targetVersionMeta.dependencies,
                                     PeerEntries(targetVersionMeta)),
                          projectDependencies)
       IN Required(VersionMeta(doc.versions, targetVersion))

\* "unknown"
T_unknown == <<"u", "n", "k", "n", "o", "w", "n">>

DependencyRecord(name, installed, st, range, nearest, latest, dependencyType, required) ==
  [name |-> name, installedVersion |-> installed, status |-> st,
   supportedReactRange |-> range, nearestCompatibleVersion |-> nearest,
   latestVersion |-> latest, dependencyType |-> dependencyType,
   requiredUpgrades |-> required]

\* the record of the catch reporting the package as incompatible
Degraded_incompatible(packageName, installed, dependencyType) ==
  DependencyRecord(packageName, StripOperators(installed), "incompatible", NULL, NULL, T_unknown,
                   dependencyType, <<>>)

\* the record of the catch (lines 284-296)
Degraded(packageName, installed, dependencyType) ==
  DependencyRecord(packageName, StripOperators(installed), "unknown", NULL, NULL, T_unknown,
                   dependencyType, <<>>)

\* lines 257-283 once the search has returned: the record of an incompatible
\* package, or the record of the catch when the search threw
IncompatibleRecord(packageName, installed, cleanVersion, dependencyType, projectDependencies, doc, reactPeerDep, nearest) ==
  IF nearest = TypeError THEN Degraded(packageName, installed, dependencyType)
  ELSE DependencyRecord(packageName, cleanVersion, "incompatible",
                        IF Truthy(reactPeerDep) THEN reactPeerDep ELSE NULL,
                        nearest, doc.latest, dependencyType,
                        IF Truthy(nearest)
                        THEN analyzeRequiredUpgrades(doc, nearest, projectDependencies)
                        ELSE <<>>)

\* lines 251-283 once the status is known
StatusRecord(packageName, installed, cleanVersion, target, dependencyType, projectDependencies, doc, reactPeerDep, st) ==
  IF st = "incompatible"
  THEN IncompatibleRecord(packageName, installed, cleanVersion, dependencyType,
                          projectDependencies, doc, reactPeerDep,
                          findNearestCompatibleVersion(doc.versions, cleanVersion, target))
  ELSE DependencyRecord(packageName, cleanVersion, st,
                        IF Truthy(reactPeerDep) THEN reactPeerDep ELSE NULL,
                        NULL, doc.latest, dependencyType, <<>>)

\* lines 238-283 once versionMeta is known: at is its index, 0 for undefined,
\* -1 when the lookup threw
MetaRecord(packageName, installed, cleanVersion, target, dependencyType, projectDependencies, doc, at) ==
  IF at < 0 THEN Degraded(packageName, installed, dependencyType)
  ELSE IF at = 0
  THEN DependencyRecord(packageName, cleanVersion, "unknown", NULL, NULL, doc.latest,
                        dependencyType, <<>>)
  ELSE StatusRecord(packageName, installed, cleanVersion, target, dependencyType,
                    projectDependencies, doc, getReactPeerDep(doc.versions[at]),
                    checkReactCompatibility(target, getReactPeerDep(doc.versions[at])))

\* analyzeDependency (lines 221-297), on the response for the package; every
\* throw inside ends in the catch of lines 284-296
analyzeDependency(packageName, installed, target, dependencyType, projectDependencies, doc) ==
  IF ~doc.ok THEN Degraded(packageName, installed, dependencyType)
  ELSE MetaRecord(packageName, installed, StripOperators(installed), target, dependencyType,
                  projectDependencies, doc,
                  findClosestVersion(doc.versions, StripOperators(installed)))

\* the names of the model that are one of, or start with one of followed by
\* '-', react, react-dom, react-scripts, react-router, @types/react,
\* @types/react-dom (lines 336-343)
ReactRelatedNames == {"react", "react-dom", "react-final-form", "react-redux"}

\* isReactRelatedPackage (lines 329-346)
isReactRelatedPackage(analysis) ==
  analysis.supportedReactRange # NULL \/ analysis.name \in ReactRelatedNames

\* the response for a package the registry does not answer for
NoResponse == [ok |-> FALSE, latest |-> NULL, versions |-> <<>>]

Response(reg, name) == IF name \in DOMAIN reg THEN reg[name] ELSE NoResponse

\* dependencies.filter(dep => dep.name !== 'react' && dep.name !== 'react-dom')
\* (part_004, lines 27-29)
FilteredDeps(manifest, opts) ==
  SelectSeq(getDependencies(manifest, opts),
            LAMBDA dep : dep.name # "react" /\ dep.name # "react-dom")

\* the records of Promise.all (part_004, lines 32-36)
RECURSIVE AnalyzeAll(_, _, _, _)
AnalyzeAll(filteredDeps, target, projectDependencies, reg) ==
  IF Len(filteredDeps) = 0 THEN <<>>
  ELSE <<analyzeDependency(filteredDeps[1].name, filteredDeps[1].version, target,
                           filteredDeps[1].type, projectDependencies,
                           Response(reg, filteredDeps[1].name))>>
         \o AnalyzeAll(Tail(filteredDeps), target, projectDependencies, reg)

\* analyzeProject giving up on every record when one request fails
analyzeProject_allOrNothing(manifest, target, opts, reg) ==
  LET Analyzed(filteredDeps) ==
        IF \E i \in 1..Len(filteredDeps) : ~Response(reg, filteredDeps[i].name).ok
        THEN <<>>
        ELSE SelectSeq(AnalyzeAll(filteredDeps, target, ProjectDependencies(manifest), reg),
                       isReactRelatedPackage)
  IN Analyzed(FilteredDeps(manifest, opts))

\* analyzeProject (part_004, lines 8-50), on the manifest read: result.dependencies
analyzeProject(manifest, target, opts, reg) ==
  SelectSeq(AnalyzeAll(FilteredDeps(manifest, opts), target, ProjectDependencies(manifest),
                       reg),
            isReactRelatedPackage)

(***************************************************************************)
(* The texts the specifications draw their inputs from                     *)
(***************************************************************************)
\* "19.0.0"
V19_0_0 == <<"1", "9", ".", "0", ".", "0">>
\* "18.2.0"
V18_2_0 == <<"1", "8", ".", "2", ".", "0">>
\* "19"
V19 == <<"1", "9">>
\* "v19.0"
V_v19_0 == <<"v", "1", "9", ".", "0">>
\* "19.0.0-rc.1"
V19_0_0_rc_1 == <<"1", "9", ".", "0", ".", "0", "-", "r", "c", ".", "1">>
\* "next"
V_next == <<"n", "e", "x", "t">>
\* "019"
V_019 == <<"0", "1", "9">>

\* the target React versions a caller passes
TargetTexts ==
  {V19_0_0, V18_2_0, V19, V_v19_0, V19_0_0_rc_1, V_next, V_019}

\* "^18.0.0"
R_caret18 == <<"^", "1", "8", ".", "0", ".", "0">>
\* "^19.0.0"
R_caret19 == <<"^", "1", "9", ".", "0", ".", "0">>
\* "^16.8.0 || ^17.0.0 || ^18.0.0"
R_or_16_17_18 == <<"^", "1", "6", ".", "8", ".", "0", " ", "|", "|", " ", "^", "1", "7", ".", "0", ".", "0", " ", "|", "|", " ", "^", "1", "8", ".", "0", ".", "0">>
\* "^16.8.0 || ^19.0.0"
R_or_16_19 == <<"^", "1", "6", ".", "8", ".", "0", " ", "|", "|", " ", "^", "1", "9", ".", "0", ".", "0">>
\* ">=16.8"
R_gte16_8 == <<">", "=", "1", "6", ".", "8">>
\* ">=16"
R_gte16 == <<">", "=", "1", "6">>
\* "16.8 - 19"
R_hyphen == <<"1", "6", ".", "8", " ", "-", " ", "1", "9">>
\* "18.2.0"
R_exact18 == <<"1", "8", ".", "2", ".", "0">>
\* ">= 16.8.0"
R_gte_spaced == <<">", "=", " ", "1", "6", ".", "8", ".", "0">>
\* "^15.x.x || ^16.x.x || ^17.x.x"
R_x == <<"^", "1", "5", ".", "x", ".", "x", " ", "|", "|", " ", "^", "1", "6", ".", "x", ".", "x", " ", "|", "|", " ", "^", "1", "7", ".", "x", ".", "x">>
\* ""
R_empty == <<>>
\* " "
R_blank == <<" ">>
\* "latest"
R_latest == <<"l", "a", "t", "e", "s", "t">>
\* "16.8.0.1"
R_four == <<"1", "6", ".", "8", ".", "0", ".", "1">>
\* "^18.0.0 | ^19.0.0"
R_single_bar == <<"^", "1", "8", ".", "0", ".", "0", " ", "|", " ", "^", "1", "9", ".", "0", ".", "0">>
\* "*"
R_star == <<"*">>
\* "<19"
R_lt19 == <<"<", "1", "9">>
\* "~19.0"
R_tilde19 == <<"~", "1", "9", ".", "0">>

\* ">=16.8 | 19"
R_partial_bar == <<">", "=", "1", "6", ".", "8", " ", "|", " ", "1", "9">>

\* peerDependencies.react of a published version: a text, or NULL (undefined)
RangeTexts ==
  {R_partial_bar, R_caret18, R_caret19, R_or_16_17_18, R_or_16_19, R_gte16_8,
   R_gte16, R_hyphen, R_exact18, R_gte_spaced, R_x,
   R_empty, R_blank, R_latest, R_four, R_single_bar,
   R_star, R_lt19, R_tilde19}


(***************************************************************************)
(* State                                                                   *)
(***************************************************************************)
VARIABLES
  called,               \* the operation that has returned last, "none" at the start
  targetReactVersion,   \* argument reactVersion / targetReactVersion
  peerDependencyRange,  \* argument of checkReactCompatibility: a text or NULL
  status,               \* value checkReactCompatibility returned, "none" before
  versions,             \* metadata.versions of the package searched
  installedVersion,     \* argument installedVersion of the nearest search
  found,                \* value the search returned: a version text or NULL
  allDeps,              \* result.dependencies: the DependencyAnalysis records
  fixMode,              \* options.fix handed to applyFixMode, "undefined" without it
  selections,           \* the UpgradeSelection list of the run
  collected,            \* collectCompanionUpgrades has returned
  companionUpgrades,    \* the list collectCompanionUpgrades returned last
  packageJson,          \* the manifest on disk
  writes,               \* the assignments updatePackageJson made to the manifest
  installStarted,       \* runInstall has spawned the installer
  steps,                \* what applyUpgrades did to the manifest and the installer, in order
  success,              \* value applyUpgrades returned: "true", "false", "pending" before
  options,              \* the CLIOptions of the run
  pc,                   \* the statement of run the process is at
  exitCode,             \* exit code of the process, -1 while it runs
  prompts,              \* the interactive prompts issued so far, in order
  registry,             \* the npm registry: package name -> response
  metadataCache,        \* the Map metadataCache: package name -> cached value
  calls,                \* the calls of fetchPackageMetadata of the run
  requests              \* the names requested from the registry so far, in order

compatVars == <<targetReactVersion, peerDependencyRange, status>>

searchVars == <<versions, installedVersion, found>>

upgradeVars ==
  <<allDeps, fixMode, selections, collected, companionUpgrades, packageJson, writes,
    installStarted, steps, success>>

runVars == <<options, pc, exitCode, prompts, registry>>

fetchVars == <<metadataCache, calls, requests>>

vars == <<called, compatVars, searchVars, upgradeVars, runVars, fetchVars>>

\* value of a result variable before the operation has returned
PENDING == <<"<pending>">>

\* the variables of a component that a specification does not exercise
IdleCompat == peerDependencyRange = NULL /\ status = "none"

IdleSearch == versions = <<>> /\ installedVersion = NULL /\ found = PENDING

IdleUpgrade ==
  /\ allDeps = <<>> /\ fixMode = "undefined" /\ selections = <<>>
  /\ collected = FALSE /\ companionUpgrades = <<>>
  /\ packageJson = <<>> /\ writes = <<>>
  /\ installStarted = FALSE /\ steps = <<>> /\ success = "pending"

IdleRun ==
  /\ options = <<>> /\ pc = "idle" /\ exitCode = -1 /\ prompts = <<>>
  /\ registry = <<>>

IdleFetch == metadataCache = <<>> /\ calls = <<>> /\ requests = <<>>

(***************************************************************************)
(* VersionRangeMatcher: checkReactCompatibility applied to an input        *)
(***************************************************************************)
InitCompat ==
  /\ called = "none"
  /\ targetReactVersion \in TargetTexts
  /\ peerDependencyRange \in RangeTexts \cup {NULL}
  /\ status = "none"
  /\ IdleSearch
  /\ IdleUpgrade
  /\ IdleRun
  /\ IdleFetch

CheckReactCompatibility ==
  /\ called = "none"
  /\ status' = checkReactCompatibility(targetReactVersion, peerDependencyRange)
  /\ called' = "checkReactCompatibility"
  /\ UNCHANGED <<targetReactVersion, peerDependencyRange, searchVars, upgradeVars, runVars, fetchVars>>

NextCompat == CheckReactCompatibility

SpecCompat == InitCompat /\ [][NextCompat]_vars

(***************************************************************************)
(* VersionSearch: the two searches applied to a registry document          *)
(***************************************************************************)
\* largest number of versions in a registry document
MaxVersions == 3

\* "1.0.0"
V1_0_0 == <<"1", ".", "0", ".", "0">>
\* "1.9.0"
V1_9_0 == <<"1", ".", "9", ".", "0">>
\* "1.10.0"
V1_10_0 == <<"1", ".", "1", "0", ".", "0">>
\* "2.0.0-rc.1"
V2_0_0_rc_1 == <<"2", ".", "0", ".", "0", "-", "r", "c", ".", "1">>
\* "2.0.0"
V2_0_0 == <<"2", ".", "0", ".", "0">>

\* the versions a registry document may list
CatalogVersions == {V1_9_0, V1_10_0, V2_0_0_rc_1, V2_0_0}

\* peerDependencies.react of a listed version
PeerChoices == {NULL, R_caret18, R_latest}

\* the installed versions the search is asked about
InstalledTexts == {V1_0_0, V1_9_0, V2_0_0_rc_1}

\* the exact React versions resolveReactVersion hands to the analysis
ResolvedTargets == {V19_0_0, V18_2_0}

\* the keys of a JSON object are distinct
DistinctKeys(doc) ==
  \A i, j \in 1..Len(doc) : doc[i].version = doc[j].version => i = j

Catalogs ==
  UNION { { doc \in [1..n -> [version : CatalogVersions, react : PeerChoices]] :
              DistinctKeys(doc) } : n \in 0..MaxVersions }

InitSearch ==
  /\ called = "none"
  /\ targetReactVersion \in ResolvedTargets
  /\ versions \in Catalogs
  /\ installedVersion \in InstalledTexts
  /\ found = PENDING
  /\ IdleCompat
  /\ IdleUpgrade
  /\ IdleRun
  /\ IdleFetch

FindNearestCompatibleVersion ==
  /\ called = "none"
  /\ found' = findNearestCompatibleVersion(versions, installedVersion, targetReactVersion)
  /\ called' = "findNearestCompatibleVersion"
  /\ UNCHANGED <<versions, installedVersion, compatVars, upgradeVars, runVars, fetchVars>>

FindLatestCompatibleVersion ==
  /\ called = "none"
  /\ found' = findLatestCompatibleVersion(versions, targetReactVersion)
  /\ called' = "findLatestCompatibleVersion"
  /\ UNCHANGED <<versions, installedVersion, compatVars, upgradeVars, runVars, fetchVars>>

NextSearch == FindNearestCompatibleVersion \/ FindLatestCompatibleVersion

SpecSearch == InitSearch /\ [][NextSearch]_vars

(***************************************************************************)
(* Upgrader: fix selection, companion collection and the manifest write    *)
(* applied to the records of an analysed project                           *)
(***************************************************************************)
\* largest number of records in result.dependencies
MaxDeps == 2

\* "6.5.9"
T_6_5_9 == <<"6", ".", "5", ".", "9">>
\* "7.0.0"
T_7_0_0 == <<"7", ".", "0", ".", "0">>
\* "7.1.0"
T_7_1_0 == <<"7", ".", "1", ".", "0">>
\* "^7.0.0"
T_caret_7_0_0 == <<"^", "7", ".", "0", ".", "0">>
\* "3.1.4"
T_3_1_4 == <<"3", ".", "1", ".", "4">>
\* "4.0.0"
T_4_0_0 == <<"4", ".", "0", ".", "0">>
\* "4.20.0"
T_4_20_0 == <<"4", ".", "2", "0", ".", "0">>
\* "^4.20.10"
T_caret_4_20_10 == <<"^", "4", ".", "2", "0", ".", "1", "0">>
\* "^4.21.0"
T_caret_4_21_0 == <<"^", "4", ".", "2", "1", ".", "0">>
\* "8.1.3"
T_8_1_3 == <<"8", ".", "1", ".", "3">>
\* "9.0.0"
T_9_0_0 == <<"9", ".", "0", ".", "0">>
\* "9.2.0"
T_9_2_0 == <<"9", ".", "2", ".", "0">>
\* "3.0.4"
T_3_0_4 == <<"3", ".", "0", ".", "4">>
\* "5.9.0"
T_5_9_0 == <<"5", ".", "9", ".", "0">>
\* "5.10.2"
T_5_10_2 == <<"5", ".", "1", "0", ".", "2">>

\* final-form as react-final-form 7.0.0 requires it
FinalFormForNearest == RequiredUpgrade("final-form", T_4_20_0, T_caret_4_20_10)

\* final-form as react-final-form 7.1.0 and react-final-form-arrays 4.0.0 require it
FinalFormForLatest == RequiredUpgrade("final-form", T_4_20_0, T_caret_4_21_0)

\* react-final-form as react-final-form-arrays 4.0.0 requires it
ReactFinalFormRequired == RequiredUpgrade("react-final-form", T_6_5_9, T_caret_7_0_0)

Analysis(name, dependencyType, installed, st, nearest, latest, forNearest, forLatest) ==
  [name |-> name, installedVersion |-> installed, status |-> st,
   nearestCompatibleVersion |-> nearest, latestVersion |-> latest,
   dependencyType |-> dependencyType,
   requiredUpgradesForNearest |-> forNearest, requiredUpgradesForLatest |-> forLatest]

\* the records an analysis may report: an incompatible record has a latest
\* version and possibly a nearest one; without nearest version there is no
\* companion list for it; the other records carry neither
AnalysisRecords ==
  { Analysis("react-final-form", "dependencies", T_6_5_9, "incompatible",
             T_7_0_0, T_7_1_0, <<FinalFormForNearest>>, <<FinalFormForLatest>>),
    Analysis("react-final-form", "dependencies", T_6_5_9, "incompatible",
             NULL, T_7_1_0, <<>>, <<FinalFormForLatest>>),
    Analysis("react-final-form", "devDependencies", T_6_5_9, "incompatible",
             T_7_0_0, T_7_1_0, <<FinalFormForNearest>>, <<FinalFormForLatest>>),
    Analysis("react-final-form-arrays", "dependencies", T_3_1_4, "incompatible",
             T_4_0_0, T_4_0_0, <<FinalFormForLatest>>, <<FinalFormForLatest>>),
    Analysis("react-final-form-arrays", "dependencies", T_3_1_4, "incompatible",
             T_4_0_0, T_4_0_0, <<ReactFinalFormRequired, FinalFormForLatest>>,
             <<ReactFinalFormRequired, FinalFormForLatest>>),
    Analysis("react-redux", "dependencies", T_8_1_3, "incompatible",
             T_9_0_0, T_9_2_0, <<>>, <<>>),
    Analysis("react-redux", "dependencies", T_8_1_3, "incompatible",
             NULL, T_9_2_0, <<>>, <<>>),
    Analysis("react-redux", "dependencies", T_9_2_0, "compatible",
             NULL, T_9_2_0, <<>>, <<>>),
    Analysis("react-select", "optionalDependencies", T_3_0_4, "incompatible",
             T_5_9_0, T_5_10_2, <<>>, <<>>) }

\* the names a record's companion lists mention
CompanionNames(dep) ==
  {dep.requiredUpgradesForNearest[i].name : i \in 1..Len(dep.requiredUpgradesForNearest)}
    \cup
  {dep.requiredUpgradesForLatest[i].name : i \in 1..Len(dep.requiredUpgradesForLatest)}

\* position of a section in the order getDependencies reads the sections in
SectionRank(section) ==
  CHOOSE k \in 1..Len(DependencyTypes) : DependencyTypes[k] = section

\* one package analysed against one target: the same searches, the same lists
SameFindings(a, b) ==
  /\ a.nearestCompatibleVersion = b.nearestCompatibleVersion
  /\ a.latestVersion = b.latestVersion
  /\ a.requiredUpgradesForNearest = b.requiredUpgradesForNearest
  /\ a.requiredUpgradesForLatest = b.requiredUpgradesForLatest

\* getDependencies lists the sections in order and a name once per section;
\* two declarations of a package at one version are analysed alike;
\* analyzeRequiredUpgrades reports only packages the project declares
\* (final-form is declared)
ProjectAnalyses ==
  UNION { { deps \in [1..n -> AnalysisRecords] :
              /\ \A i, j \in 1..n :
                   (deps[i].name = deps[j].name
                      /\ deps[i].dependencyType = deps[j].dependencyType) => i = j
              /\ \A i, j \in 1..n :
                   i < j => SectionRank(deps[i].dependencyType)
                              <= SectionRank(deps[j].dependencyType)
              /\ \A i, j \in 1..n :
                   (deps[i].name = deps[j].name
                      /\ deps[i].installedVersion = deps[j].installedVersion
                      /\ deps[i].status = deps[j].status) => SameFindings(deps[i], deps[j])
              /\ \A i \in 1..n : \A c \in CompanionNames(deps[i]) :
                   c = "final-form" \/ \E j \in 1..n : deps[j].name = c }
          : n \in 0..MaxDeps }

\* the entries of a section of the manifest the records were read from
SectionOf(deps, section) ==
  LET names == {deps[i].name : i \in {j \in 1..Len(deps) : deps[j].dependencyType = section}}
                 \cup (IF section = "dependencies" THEN {"final-form"} ELSE {})
  IN [name \in names |->
        IF name = "final-form" THEN <<"^">> \o T_4_20_0
        ELSE <<"^">> \o
             deps[CHOOSE i \in 1..Len(deps) :
                    deps[i].name = name /\ deps[i].dependencyType = section].installedVersion]

\* the manifest of the analysed project: the sections that have entries
ManifestOf(deps) ==
  LET sections == {"dependencies"} \cup {deps[i].dependencyType : i \in 1..Len(deps)}
  IN [section \in sections |-> SectionOf(deps, section)]

InitUpgrade ==
  /\ called = "none"
  /\ targetReactVersion = V19_0_0
  /\ allDeps \in ProjectAnalyses
  /\ packageJson = ManifestOf(allDeps)
  /\ fixMode = "undefined"
  /\ selections = <<>>
  /\ collected = FALSE
  /\ companionUpgrades = <<>>
  /\ writes = <<>>
  /\ installStarted = FALSE
  /\ steps = <<>>
  /\ success = "pending"
  /\ IdleCompat
  /\ IdleSearch
  /\ IdleRun
  /\ IdleFetch

\* run, non-interactive: selections = applyFixMode(incompatibleDeps, options.fix)
ApplyFixMode ==
  /\ called = "none"
  /\ \E mode \in FixModes :
       /\ fixMode' = mode
       /\ selections' = applyFixMode(incompatibleDeps(allDeps), mode)
  /\ called' = "applyFixMode"
  /\ UNCHANGED <<runVars, fetchVars, compatVars, searchVars, allDeps, collected, companionUpgrades,
                 packageJson, writes, installStarted, steps, success>>

\* run, interactive: selections = await promptUpgradeActions(incompatibleDeps)
PromptUpgradeActions ==
  /\ called = "none"
  /\ LET deps == incompatibleDeps(allDeps)
     IN \E answers \in [1..Len(deps) -> {"nearest-compatible", "latest", "skip"}] :
          /\ \A i \in 1..Len(deps) : answers[i] \in PromptChoices(deps[i])
          /\ selections' = promptUpgradeActions(deps, answers)
  /\ called' = "promptUpgradeActions"
  /\ UNCHANGED <<runVars, fetchVars, compatVars, searchVars, allDeps, fixMode, collected, companionUpgrades,
                 packageJson, writes, installStarted, steps, success>>

\* collectCompanionUpgrades(selections, result.dependencies), as confirmUpgrade
\* calls it (prompts.ts, line 135)
CollectCompanionUpgrades ==
  /\ called \in {"applyFixMode", "promptUpgradeActions"}
  /\ companionUpgrades' = collectCompanionUpgrades(selections, allDeps)
  /\ collected' = TRUE
  /\ called' = "collectCompanionUpgrades"
  /\ UNCHANGED <<runVars, fetchVars, compatVars, searchVars, allDeps, fixMode, selections,
                 packageJson, writes, installStarted, steps, success>>

\* how the spawned installer ends: the 'close' event with an exit status, or
\* the 'error' event when it could not be started
InstallerOutcomes == {"close 0", "close 1", "error"}

\* runInstall (lines 366-398): the value its promise resolves with
runInstall(outcome) == outcome = "close 0"

\* how the manifest file behaves when updatePackageJson reads and writes it
ManifestIO == {"ok", "readFails", "writeFails"}

\* what the try block of applyUpgrades (lines 415-417) gets to do: the read
\* and the write of updatePackageJson (lines 300 and 359), then runInstall
ManifestSteps(io) ==
  IF io = "readFails" THEN <<"readPackageJson throws">>
  ELSE IF io = "writeFails" THEN <<"readPackageJson", "writePackageJson throws">>
  ELSE <<"readPackageJson", "writePackageJson", "runInstall">>

\* applyUpgrades going on to the installer after a write that failed
applyUpgrades_installsAnyway(io, outcome) ==
  IF Len(NonSkip(selections)) = 0
  THEN /\ success' = "true"
       /\ UNCHANGED <<collected, companionUpgrades, packageJson, writes, installStarted, steps>>
  ELSE LET done == updatePackageJson(packageJson, selections, allDeps, TRUE)
       IN IF io = "readFails"
          THEN /\ success' = "false"
               /\ steps' = ManifestSteps(io)
               /\ UNCHANGED <<collected, companionUpgrades, packageJson, writes,
                              installStarted>>
          ELSE /\ writes' = done.writes
               /\ companionUpgrades' = collectCompanionUpgrades(selections, allDeps)
               /\ collected' = TRUE
               /\ packageJson' = IF io = "ok" THEN done.packageJson ELSE packageJson
               /\ installStarted' = TRUE
               /\ steps' = IF io = "ok" THEN ManifestSteps(io)
                           ELSE Append(ManifestSteps(io), "runInstall")
               /\ success' = IF runInstall(outcome) THEN "true" ELSE "false"

\* applyUpgrades putting the manifest back when the installer fails
applyUpgrades_rollsBack(io, outcome) ==
  IF Len(NonSkip(selections)) = 0
  THEN /\ success' = "true"
       /\ UNCHANGED <<collected, companionUpgrades, packageJson, writes, installStarted, steps>>
  ELSE LET done == updatePackageJson(packageJson, selections, allDeps, TRUE)
       IN IF io = "readFails"
          THEN /\ success' = "false"
               /\ steps' = ManifestSteps(io)
               /\ UNCHANGED <<collected, companionUpgrades, packageJson, writes,
                              installStarted>>
          ELSE /\ writes' = done.writes
               /\ companionUpgrades' = collectCompanionUpgrades(selections, allDeps)
               /\ collected' = TRUE
               /\ packageJson' = IF io = "ok" /\ runInstall(outcome)
                                 THEN done.packageJson ELSE packageJson
               /\ installStarted' = (io = "ok")
               /\ steps' = ManifestSteps(io)
               /\ success' = IF io = "ok" /\ runInstall(outcome) THEN "true" ELSE "false"

\* applyUpgrades(selections, result.dependencies, true) (lines 403-422):
\* nothing to do without a non-skip selection; otherwise the manifest is read,
\* updated and written and the installer run; a failure to read or write is
\* caught
applyUpgrades(io, outcome) ==
  IF Len(NonSkip(selections)) = 0
  THEN /\ success' = "true"
       /\ UNCHANGED <<collected, companionUpgrades, packageJson, writes, installStarted, steps>>
  ELSE LET done == updatePackageJson(packageJson, selections, allDeps, TRUE)
       IN IF io = "readFails"
          THEN /\ success' = "false"
               /\ steps' = ManifestSteps(io)
               /\ UNCHANGED <<collected, companionUpgrades, packageJson, writes,
                              installStarted>>
          ELSE /\ writes' = done.writes
               /\ companionUpgrades' = collectCompanionUpgrades(selections, allDeps)
               /\ collected' = TRUE
               /\ packageJson' = IF io = "ok" THEN done.packageJson ELSE packageJson
               /\ installStarted' = (io = "ok")
               /\ steps' = ManifestSteps(io)
               /\ success' = IF io = "ok" /\ runInstall(outcome) THEN "true" ELSE "false"

ApplyUpgrades ==
  /\ called \in {"applyFixMode", "promptUpgradeActions", "collectCompanionUpgrades"}
  /\ called' = "applyUpgrades"
  /\ \E io \in ManifestIO, outcome \in InstallerOutcomes : applyUpgrades(io, outcome)
  /\ UNCHANGED <<runVars, fetchVars, compatVars, searchVars, allDeps, fixMode, selections>>

NextUpgrade ==
  ApplyFixMode \/ PromptUpgradeActions \/ CollectCompanionUpgrades \/ ApplyUpgrades

SpecUpgrade == InitUpgrade /\ [][NextUpgrade]_vars

(***************************************************************************)
(* The analysis of a project: analyzeProject applied to a manifest and a   *)
(* registry.  The project declares react, react-dom, react-final-form and  *)
(* tslib, react-redux in one of two ways and in some manifests final-form; *)
(* the registry answers for react-final-form and react-redux, or fails to. *)
(***************************************************************************)
\* "1.2.3"
T_1_2_3 == <<"1", ".", "2", ".", "3">>
\* "2.0.0"
T_2_0_0 == <<"2", ".", "0", ".", "0">>
\* "^1.2.3 || ^2.0.0"
T_caret_1_2_3_or_2_0_0 ==
  <<"^">> \o T_1_2_3 \o <<" ", "|", "|", " ", "^">> \o T_2_0_0
\* "4.20+1"
T_4_20_plus_1 == <<"4", ".", "2", "0", "+", "1">>
\* "2.1.0"
T_2_1_0 == <<"2", ".", "1", ".", "0">>
\* "4.21.3"
T_4_21_3 == <<"4", ".", "2", "1", ".", "3">>

Entry(name, range) == [name |-> name, range |-> range]

\* largest number of entries in the dependencies of a published version
MaxEntries == 2

\* the entries the dependencies of react-final-form 7.0.0 are drawn from
DependencyPool ==
  { Entry("final-form", T_caret_4_20_10), Entry("final-form", <<"^">> \o T_4_20_0),
    Entry("final-form", T_4_20_plus_1), Entry("tslib", <<"^">> \o T_2_0_0),
    Entry("react-dom", R_caret19) }

DistinctNames(entries) ==
  \A i, j \in 1..Len(entries) : i # j => entries[i].name # entries[j].name

DependencyLists ==
  {entries \in UNION {[1..n -> DependencyPool] : n \in 0..MaxEntries} :
     DistinctNames(entries)}

\* the peer dependencies of react-final-form 7.0.0 other than react
PeerLists ==
  { <<>>, <<Entry("final-form", T_caret_4_21_0)>>, <<Entry("final-form", R_latest)>>,
    <<Entry("react-dom", R_caret19)>> }

Published(version, react, dependencies, peerDependencies) ==
  [version |-> version, react |-> react, dependencies |-> dependencies,
   peerDependencies |-> peerDependencies]

ReactFinalFormDocs ==
  { [ok |-> TRUE, latest |-> T_7_0_0,
     versions |-> << Published(T_6_5_9, R_or_16_17_18, <<>>, <<>>),
                     Published(T_7_0_0, R_or_16_19, dependencies, peerDependencies) >>] :
      dependencies \in DependencyLists, peerDependencies \in PeerLists }
    \cup {NoResponse}

\* react-redux: two releases, or a release candidate only, or no answer
ReactReduxDocs ==
  { [ok |-> TRUE, latest |-> T_2_0_0,
     versions |-> << Published(T_1_2_3, R_caret18, <<>>, <<>>),
                     Published(T_2_0_0, R_caret19, <<>>, <<>>) >>],
    [ok |-> TRUE, latest |-> V2_0_0_rc_1,
     versions |-> << Published(V2_0_0_rc_1, R_caret19, <<>>, <<>>) >>],
    NoResponse }

\* the ranges a manifest declares for react-redux: a listed version, the
\* range of two versions, a version above and a version below the listed ones
ReactReduxDeclared ==
  { <<"^">> \o T_1_2_3, T_caret_1_2_3_or_2_0_0, <<"^">> \o T_2_1_0, <<"^">> \o V1_0_0 }

\* the declarations of final-form: none, in dependencies, in devDependencies
FinalFormDeclared == {"none", "dependencies", "devDependencies", "satisfying"}

\* the manifests analysed
AnalyzeManifest(finalForm, reactRedux) ==
  [dependencies |->
     ("react" :> (<<"^">> \o V18_2_0)) @@ ("react-dom" :> (<<"^">> \o V18_2_0))
       @@ ("react-final-form" :> (<<"^">> \o T_6_5_9))
       @@ (IF finalForm = "dependencies" THEN "final-form" :> (<<"^">> \o T_4_20_0)
           ELSE IF finalForm = "satisfying" THEN "final-form" :> (<<"^">> \o T_4_21_3)
           ELSE <<>>),
   devDependencies |->
     ("react-redux" :> reactRedux)
       @@ (IF finalForm = "devDependencies" THEN "final-form" :> (<<"^">> \o T_4_20_0)
           ELSE <<>>),
   optionalDependencies |-> ("tslib" :> (<<"^">> \o T_2_0_0))]

AnalyzeManifests ==
  { AnalyzeManifest(finalForm, reactRedux) :
      finalForm \in FinalFormDeclared,
      reactRedux \in ReactReduxDeclared }

AnalyzeRegistries ==
  { ("react-final-form" :> reactFinalForm) @@ ("react-redux" :> reactRedux) :
      reactFinalForm \in ReactFinalFormDocs, reactRedux \in ReactReduxDocs }

InitAnalyze ==
  /\ called = "none"
  /\ pc = "start"
  /\ exitCode = -1
  /\ prompts = <<>>
  /\ options \in [includeDev : BOOLEAN, includeOptional : BOOLEAN]
  /\ registry \in AnalyzeRegistries
  /\ packageJson \in AnalyzeManifests
  /\ targetReactVersion = V19_0_0
  /\ allDeps = <<>>
  /\ fixMode = "undefined" /\ selections = <<>>
  /\ collected = FALSE /\ companionUpgrades = <<>>
  /\ writes = <<>> /\ installStarted = FALSE /\ steps = <<>> /\ success = "pending"
  /\ IdleCompat
  /\ IdleSearch
  /\ IdleFetch

\* analyzeProject(options.path, targetReactVersion, options) (part_004, line 165)
AnalyzeProject ==
  /\ pc = "start"
  /\ allDeps' = analyzeProject(packageJson, targetReactVersion, options, registry)
  /\ called' = "analyzeProject"
  /\ pc' = "analyzed"
  /\ UNCHANGED <<options, registry, fetchVars, exitCode, prompts, compatVars, searchVars, fixMode,
                 selections, collected, companionUpgrades, packageJson, writes,
                 installStarted, steps, success>>

NextAnalyze == AnalyzeProject

SpecAnalyze == InitAnalyze /\ [][NextAnalyze]_vars

(***************************************************************************)
(* The registry client (part_003, lines 126-160): the calls of             *)
(* fetchPackageMetadata that analyzeProject starts together with           *)
(* Promise.all (part_004, lines 32-36), one for each analysed declaration. *)
(* A call runs up to its next await and the event loop interleaves the     *)
(* calls.  The value the registry serves for a package is the number of    *)
(* its latest publication.                                                 *)
(***************************************************************************)
\* largest number of calls in flight together
MaxCalls == 3

\* largest number of publications of a package during the run
MaxRevisions == 2

\* the packages requested
FetchNames == {"react-final-form", "react-redux"}

\* metadataCache.get(packageName): the cached value, 0 for undefined
CacheGet(cache, packageName) ==
  IF packageName \in DOMAIN cache THEN cache[packageName] ELSE 0

\* metadataCache.set(packageName, data)
CacheSet(cache, packageName, data) ==
  [name \in DOMAIN cache \cup {packageName} |->
     IF name = packageName THEN data ELSE cache[name]]

InitFetch ==
  /\ called = "none"
  /\ metadataCache = <<>>
  /\ calls \in [1..MaxCalls ->
                  [packageName : FetchNames, at : {"start"}, state : {"pending"}, data : {0}]]
  /\ requests = <<>>
  /\ registry = [name \in FetchNames |-> 1]
  /\ options = <<>> /\ pc = "idle" /\ exitCode = -1 /\ prompts = <<>>
  /\ targetReactVersion = V19_0_0
  /\ IdleCompat
  /\ IdleSearch
  /\ IdleUpgrade

\* the variables fetchPackageMetadata leaves alone
FetchFrame ==
  UNCHANGED <<options, pc, exitCode, prompts, compatVars, searchVars, upgradeVars>>

\* lines 133-144: the cache is looked up; a hit returns the cached value, a
\* miss sends the request and waits for it
FetchLookup ==
  /\ \E c \in 1..MaxCalls :
       /\ calls[c].at = "start"
       /\ IF CacheGet(metadataCache, calls[c].packageName) # 0
          THEN /\ calls' = [calls EXCEPT
                              ![c].at = "returned", ![c].state = "resolved",
                              ![c].data = CacheGet(metadataCache, calls[c].packageName)]
               /\ UNCHANGED requests
          ELSE /\ calls' = [calls EXCEPT ![c].at = "request"]
               /\ requests' = Append(requests, calls[c].packageName)
  /\ called' = "fetchPackageMetadata"
  /\ UNCHANGED <<metadataCache, registry>>
  /\ FetchFrame

\* lines 140-152: the response arrives; 404 and every status other than 200 throw
FetchResponse ==
  /\ \E c \in 1..MaxCalls, statusCode \in {200, 404, 500} :
       /\ calls[c].at = "request"
       /\ IF statusCode = 200
          THEN calls' = [calls EXCEPT ![c].at = "body",
                                      ![c].data = registry[calls[c].packageName]]
          ELSE calls' = [calls EXCEPT ![c].at = "thrown", ![c].state = "rejected"]
  /\ UNCHANGED <<called, metadataCache, requests, registry>>
  /\ FetchFrame

\* lines 154-157: the body is parsed, stored in the cache and returned
FetchBody ==
  /\ \E c \in 1..MaxCalls :
       /\ calls[c].at = "body"
       /\ metadataCache' = CacheSet(metadataCache, calls[c].packageName, calls[c].data)
       /\ calls' = [calls EXCEPT ![c].at = "returned", ![c].state = "resolved"]
  /\ UNCHANGED <<called, requests, registry>>
  /\ FetchFrame

\* the registry: a new version of a package is published
Publish ==
  /\ \E name \in FetchNames :
       /\ registry[name] < MaxRevisions
       /\ registry' = [registry EXCEPT ![name] = @ + 1]
  /\ UNCHANGED <<called, metadataCache, calls, requests>>
  /\ FetchFrame

NextFetch == FetchLookup \/ FetchResponse \/ FetchBody \/ Publish

SpecFetch == InitFetch /\ [][NextFetch]_vars

(***************************************************************************)
(* The command line run (part_004, lines 115-234): run from the resolution *)
(* of the target version to the exit of the process, one action per await  *)
(***************************************************************************)
\* enum ExitCode
SUCCESS == 0

INCOMPATIBLE == 1

ERROR == 2

\* "18.3.1"
V18_3_1 == <<"1", "8", ".", "3", ".", "1">>
\* "18.2"
V18_2 == <<"1", "8", ".", "2">>
\* "20"
V20 == <<"2", "0">>

\* what --react is given as: nothing, a major, a minor or an exact version, a
\* major that does not exist, a word
ReactInputs == {NULL, V19, V18_2, V18_2_0, V20, V_next}

\* the response of the registry for 'react': the versions in the order they
\* were published, or a failed request
ReactDocs ==
  { [ok |-> TRUE, latest |-> V19_0_0,
     versions |-> << [version |-> V18_2_0, react |-> NULL],
                     [version |-> V18_3_1, react |-> NULL],
                     [version |-> V19_0_0_rc_1, react |-> NULL],
                     [version |-> V19_0_0, react |-> NULL] >>],
    [ok |-> FALSE, latest |-> NULL, versions |-> <<>>] }

\* the analyses analyzeProject may return to run
RunProjects ==
  { <<>>,
    << Analysis("react-redux", "dependencies", T_9_2_0, "compatible",
                NULL, T_9_2_0, <<>>, <<>>) >>,
    << Analysis("react-redux", "dependencies", T_8_1_3, "unknown",
                NULL, T_9_2_0, <<>>, <<>>) >>,
    << Analysis("react-redux", "dependencies", T_8_1_3, "incompatible",
                T_9_0_0, T_9_2_0, <<>>, <<>>) >>,
    << Analysis("react-final-form", "dependencies", T_6_5_9, "incompatible",
                NULL, T_7_1_0, <<>>, <<FinalFormForLatest>>),
       Analysis("react-select", "optionalDependencies", T_3_0_4, "incompatible",
                T_5_9_0, T_5_10_2, <<>>, <<>>) >>,
    << Analysis("react-redux", "dependencies", T_9_2_0, "compatible",
                NULL, T_9_2_0, <<>>, <<>>),
       Analysis("react-final-form", "devDependencies", T_6_5_9, "incompatible",
                T_7_0_0, T_7_1_0, <<FinalFormForNearest>>, <<FinalFormForLatest>>) >> }

\* hasIncompatible counting every record that is not compatible
hasIncompatible_notCompatible(dependencies) ==
  \E i \in 1..Len(dependencies) : dependencies[i].status # "compatible"

\* result.hasIncompatible (part_004, line 41)
hasIncompatible(dependencies) ==
  \E i \in 1..Len(dependencies) : dependencies[i].status = "incompatible"

InitRun ==
  /\ called = "none"
  /\ pc = "start"
  /\ exitCode = -1
  /\ prompts = <<>>
  /\ options \in [react : ReactInputs, json : BOOLEAN, fix : FixModes \cup {"undefined"}]
  /\ registry \in [react : ReactDocs]
  /\ targetReactVersion = NULL
  /\ allDeps = <<>>
  /\ packageJson = <<>>
  /\ fixMode = "undefined"
  /\ selections = <<>>
  /\ collected = FALSE
  /\ companionUpgrades = <<>>
  /\ writes = <<>>
  /\ installStarted = FALSE
  /\ steps = <<>>
  /\ success = "pending"
  /\ peerDependencyRange = NULL /\ status = "none"
  /\ IdleSearch
  /\ IdleFetch

\* process.exit(code)
Exit(code) == pc' = "exited" /\ exitCode' = code

\* run returns: the process ends with the default exit code
Return == pc' = "returned" /\ exitCode' = SUCCESS

\* the catch of the action handler (lines 126-133)
Fail(operation) ==
  /\ called' = operation
  /\ Exit(ERROR)

\* the end of the branch for incompatible packages (lines 223-227)
Finish == IF options.fix = "none" \/ options.fix = "undefined" THEN Exit(INCOMPATIBLE) ELSE Return

\* lines 138-157: the target version is resolved from --react, or asked for
RunResolveVersion ==
  /\ pc = "start"
  /\ IF Truthy(options.react)
     THEN LET Continue(resolved) ==
                IF resolved = Thrown
                THEN Fail("resolveReactVersion throws") /\ UNCHANGED targetReactVersion
                ELSE /\ targetReactVersion' = resolved
                     /\ called' = "resolveReactVersion"
                     /\ pc' = "analyze"
                     /\ UNCHANGED exitCode
          IN Continue(resolveReactVersion(options.react, registry.react))
             /\ UNCHANGED prompts
     ELSE IF options.json
     THEN Fail("run throws") /\ UNCHANGED <<targetReactVersion, prompts>>
     ELSE IF ~registry.react.ok
     THEN Fail("promptReactVersion throws") /\ UNCHANGED <<targetReactVersion, prompts>>
     ELSE /\ \E version \in StableVersions(registry.react) : targetReactVersion' = version
          /\ prompts' = Append(prompts, "reactVersion")
          /\ called' = "promptReactVersion"
          /\ pc' = "analyze"
          /\ UNCHANGED exitCode
  /\ UNCHANGED <<options, registry, fetchVars, peerDependencyRange, status, searchVars, upgradeVars>>

\* lines 165-175: analyzeProject reads the manifest, which may be missing or
\* no JSON, and analyses its dependencies; the result is printed
RunAnalyzeProject ==
  /\ pc = "analyze"
  /\ \E manifest \in {"ok", "missing", "unparsable"} :
       IF manifest # "ok"
       THEN Fail("readPackageJson throws") /\ UNCHANGED <<allDeps, packageJson>>
       ELSE /\ \E dependencies \in RunProjects :
                 /\ allDeps' = dependencies
                 /\ packageJson' = ManifestOf(dependencies)
            /\ called' = "analyzeProject"
            /\ pc' = "handle"
            /\ UNCHANGED exitCode
  /\ UNCHANGED <<options, registry, fetchVars, prompts, compatVars, searchVars, fixMode, selections,
                 collected, companionUpgrades, writes, installStarted, steps, success>>

\* the interactive branch taken whatever the output format is
InteractiveMode_always(opts) == TRUE

\* else if (!options.json) (line 203): the interactive branch of the upgrade flow
InteractiveMode(opts) == ~opts.json

\* lines 178-206 and 223-233: nothing to handle without incompatible package;
\* otherwise the selections come from --fix or from the prompts
RunSelect ==
  /\ pc = "handle"
  /\ IF ~hasIncompatible(allDeps)
     THEN Exit(SUCCESS) /\ UNCHANGED <<called, fixMode, selections, prompts>>
     ELSE IF options.fix # "undefined"
     THEN /\ selections' = applyFixMode(incompatibleDeps(allDeps), options.fix)
          /\ fixMode' = options.fix
          /\ called' = "applyFixMode"
          /\ IF options.fix # "none" /\ ~options.json /\ Len(NonSkip(selections')) > 0
             THEN pc' = "apply" /\ UNCHANGED exitCode
             ELSE Finish
          /\ UNCHANGED prompts
     ELSE IF InteractiveMode(options)
     THEN /\ LET deps == incompatibleDeps(allDeps)
             IN /\ \E answers \in [1..Len(deps) -> {"nearest-compatible", "latest", "skip"}] :
                     /\ \A i \in 1..Len(deps) : answers[i] \in PromptChoices(deps[i])
                     /\ selections' = promptUpgradeActions(deps, answers)
                /\ prompts' = prompts \o [i \in 1..Len(deps) |-> "upgradeAction"]
          /\ called' = "promptUpgradeActions"
          /\ IF Len(NonSkip(selections')) > 0
             THEN pc' = "confirm" /\ UNCHANGED exitCode
             ELSE Finish
          /\ UNCHANGED fixMode
     ELSE Finish /\ UNCHANGED <<called, fixMode, selections, prompts>>
  /\ UNCHANGED <<options, registry, fetchVars, compatVars, searchVars, allDeps, collected,
                 companionUpgrades, packageJson, writes, installStarted, steps, success>>

\* lines 208-219: confirmUpgrade lists the upgrades and asks
RunConfirm ==
  /\ pc = "confirm"
  /\ companionUpgrades' = collectCompanionUpgrades(selections, allDeps)
  /\ collected' = TRUE
  /\ prompts' = Append(prompts, "confirm")
  /\ called' = "confirmUpgrade"
  /\ \E confirmed \in BOOLEAN :
       IF confirmed THEN pc' = "apply" /\ UNCHANGED exitCode ELSE Finish
  /\ UNCHANGED <<options, registry, fetchVars, compatVars, searchVars, allDeps, fixMode, selections,
                 packageJson, writes, installStarted, steps, success>>

\* lines 196-199 and 211-216: applyUpgrades, and exit code 2 when it fails
RunApply ==
  /\ pc = "apply"
  /\ \E io \in ManifestIO, outcome \in InstallerOutcomes : applyUpgrades(io, outcome)
  /\ called' = "applyUpgrades"
  /\ IF success' = "true" THEN Finish ELSE Exit(ERROR)
  /\ UNCHANGED <<options, registry, fetchVars, prompts, compatVars, searchVars, allDeps, fixMode,
                 selections>>

NextRun == RunResolveVersion \/ RunAnalyzeProject \/ RunSelect \/ RunConfirm \/ RunApply

SpecRun == InitRun /\ [][NextRun]_vars

(***************************************************************************)
(* Claims about checkReactCompatibility (SpecCompat)                       *)
(***************************************************************************)
Returned == called = "checkReactCompatibility"

Present(range) == range # NULL /\ Len(range) > 0

Normalizable(range) == range # NULL /\ Len(normalizePeerDepRange(range)) > 0

Coercible(version) == Len(Coerce(version)) > 0

\* what the claim calls "the coerced v satisfies the normalized r"
CoercedSatisfies(version, range) ==
  RangeTest(normalizePeerDepRange(range), Coerce(version))

ExpectedStatus(version, range) ==
  IF CoercedSatisfies(version, range) THEN "compatible" ELSE "incompatible"

\* C1 as stated: for every target version v and every peer range r for which
\* range normalization succeeds and v can be coerced, the result is
\* 'compatible' if the coerced v satisfies the normalized r and 'incompatible'
\* otherwise, never 'unknown'.
C1_Original ==
  (Returned /\ Normalizable(peerDependencyRange) /\ Coercible(targetReactVersion))
    => status = ExpectedStatus(targetReactVersion, peerDependencyRange)

\* C1 (amended): for every target version v that can be coerced and every
\* non-empty peer range r for which range normalization succeeds, the result
\* is 'compatible' if the coerced v satisfies the normalized r and
\* 'incompatible' otherwise, never 'unknown'; 19.0.0 against
\* '^16.8.0 || ^17.0.0 || ^18.0.0' is incompatible and against
\* '^16.8.0 || ^19.0.0' compatible.
C1_CompatibleIffSatisfies ==
  /\ (Returned /\ Present(peerDependencyRange) /\ Normalizable(peerDependencyRange)
        /\ Coercible(targetReactVersion))
       => status = ExpectedStatus(targetReactVersion, peerDependencyRange)
  /\ (Returned /\ targetReactVersion = V19_0_0 /\ peerDependencyRange = R_or_16_17_18)
       => status = "incompatible"
  /\ (Returned /\ targetReactVersion = V19_0_0 /\ peerDependencyRange = R_or_16_19)
       => status = "compatible"

\* a coercible target met a non-empty range that parses and excludes it
C1_Witness ==
  /\ Returned
  /\ Present(peerDependencyRange) /\ Normalizable(peerDependencyRange)
  /\ Coercible(targetReactVersion)
  /\ ~CoercedSatisfies(targetReactVersion, peerDependencyRange)
  /\ status = "incompatible"

\* C2: the result is 'unknown' whenever the peer range is absent or the
\* empty string, or still fails validation after the tolerant rewriting, or
\* the target cannot be coerced to a version; it is never 'incompatible' there.
C2_UnknownWhenUndecidable ==
  (Returned /\ (\/ ~Present(peerDependencyRange)
                \/ ~Normalizable(peerDependencyRange)
                \/ ~Coercible(targetReactVersion)))
    => status = "unknown"

\* a non-empty range that fails both validations was evaluated
C2_Witness ==
  /\ Returned
  /\ Present(peerDependencyRange) /\ ~Normalizable(peerDependencyRange)
  /\ Coercible(targetReactVersion)
  /\ status = "unknown"

(***************************************************************************)
(* Claims about the version search (SpecSearch)                            *)
(***************************************************************************)
IsKey(version) == \E i \in 1..Len(versions) : versions[i].version = version

\* the React peer requirement of a listed version is present and compatible
\* with the target
PeerAdmitsTarget(version) ==
  LET react == VersionMeta(versions, version).react
  IN react # NULL /\ checkReactCompatibility(targetReactVersion, react) = "compatible"

IsRelease(version) == Len(Pre(ParseVersion(version))) = 0

StrictlyAbove(version, other) ==
  CompareVersions(ParseVersion(version), ParseVersion(other)) > 0

NotAbove(version, other) ==
  CompareVersions(ParseVersion(version), ParseVersion(other)) <= 0

\* the conditions of the nearest search on a listed version
QualifiesNearest(version) ==
  /\ IsKey(version)
  /\ IsRelease(version)
  /\ StrictlyAbove(version, installedVersion)
  /\ PeerAdmitsTarget(version)

\* the conditions of the latest search on a listed version
QualifiesLatest(version) ==
  IsKey(version) /\ IsRelease(version) /\ PeerAdmitsTarget(version)

\* C3: a version returned by findNearestCompatibleVersion is not a
\* pre-release, is strictly greater than the installed version, has a React
\* peer requirement that is present and compatible with the target, and is the
\* lowest such version of the catalog by precedence; absent is returned
\* exactly when no catalog version meets the conditions.
C3_NearestIsLowestQualifying ==
  called = "findNearestCompatibleVersion" =>
    /\ found # TypeError
    /\ (found # NULL =>
          /\ QualifiesNearest(found)
          /\ \A i \in 1..Len(versions) :
               QualifiesNearest(versions[i].version) => NotAbove(found, versions[i].version))
    /\ (found = NULL <=> ~\E i \in 1..Len(versions) : QualifiesNearest(versions[i].version))

\* the search returned a version although a higher qualifying version comes
\* first in key order, and the installed version itself is listed with a
\* compatible peer range
C3_Witness ==
  /\ called = "findNearestCompatibleVersion"
  /\ found # NULL /\ found # TypeError
  /\ \E i, j \in 1..Len(versions) :
       /\ i < j
       /\ versions[j].version = found
       /\ QualifiesNearest(versions[i].version)
  /\ IsKey(installedVersion) /\ PeerAdmitsTarget(installedVersion)

\* C4: findLatestCompatibleVersion returns the highest-precedence version
\* that is not a pre-release and whose React peer requirement is present and
\* compatible with the target, and absent exactly when there is none.
C4_LatestIsHighestQualifying ==
  called = "findLatestCompatibleVersion" =>
    /\ (found # NULL =>
          /\ QualifiesLatest(found)
          /\ \A i \in 1..Len(versions) :
               QualifiesLatest(versions[i].version) => NotAbove(versions[i].version, found))
    /\ (found = NULL <=> ~\E i \in 1..Len(versions) : QualifiesLatest(versions[i].version))

\* the search returned a version that a lower qualifying version follows in
\* key order, passing over a higher version without compatible peer range
C4_Witness ==
  /\ called = "findLatestCompatibleVersion"
  /\ found # NULL
  /\ \E i, j \in 1..Len(versions) :
       /\ i < j
       /\ versions[i].version = found
       /\ QualifiesLatest(versions[j].version)
  /\ \E i \in 1..Len(versions) :
       /\ StrictlyAbove(versions[i].version, found)
       /\ ~PeerAdmitsTarget(versions[i].version)

(***************************************************************************)
(* Claims about the upgrader (SpecUpgrade)                                 *)
(***************************************************************************)
\* the records the fix selector was given, in order
InputRecords == SelectSeq(allDeps, LAMBDA dep : dep.status = "incompatible")

\* C5: with fix policy 'none', applyFixMode returns exactly one selection per
\* input record, in input order, each with the record's package name, action
\* 'skip' and an absent (null) target version.
C5_NoneSkipsEveryRecord ==
  fixMode = "none" =>
    /\ Len(selections) = Len(InputRecords)
    /\ \A i \in 1..Len(InputRecords) :
         /\ selections[i].packageName = InputRecords[i].name
         /\ selections[i].action = "skip"
         /\ selections[i].targetVersion = NULL

\* policy 'none' met two records, one of them with a nearest compatible version
C5_Witness ==
  /\ fixMode = "none"
  /\ Len(selections) = 2
  /\ InputRecords[1].name # InputRecords[2].name
  /\ \E i \in 1..2 : InputRecords[i].nearestCompatibleVersion # NULL

\* C6: with fix policy 'nearest', applyFixMode yields for each record the
\* selection {nearest-compatible, record.nearestCompatibleVersion} when the
\* record has a nearest compatible version, and otherwise falls back to
\* {latest, record.latestVersion}.
C6_NearestOrFallback ==
  fixMode = "nearest" =>
    /\ Len(selections) = Len(InputRecords)
    /\ \A i \in 1..Len(InputRecords) :
         /\ selections[i].packageName = InputRecords[i].name
         /\ IF InputRecords[i].nearestCompatibleVersion # NULL
            THEN /\ selections[i].action = "nearest-compatible"
                 /\ selections[i].targetVersion = InputRecords[i].nearestCompatibleVersion
            ELSE /\ selections[i].action = "latest"
                 /\ selections[i].targetVersion = InputRecords[i].latestVersion

\* policy 'nearest' took the nearest version of one record and fell back to
\* the latest version of another
C6_Witness ==
  /\ fixMode = "nearest"
  /\ \E i, j \in 1..Len(selections) :
       /\ selections[i].action = "nearest-compatible"
       /\ selections[i].targetVersion # InputRecords[i].latestVersion
       /\ selections[j].action = "latest"
       /\ InputRecords[j].nearestCompatibleVersion = NULL

\* C7: with fix policy 'latest', applyFixMode yields for every record the
\* selection {latest, record.latestVersion}, whether or not the record has a
\* nearest compatible version.
C7_LatestUnconditionally ==
  fixMode = "latest" =>
    /\ Len(selections) = Len(InputRecords)
    /\ \A i \in 1..Len(InputRecords) :
         /\ selections[i].packageName = InputRecords[i].name
         /\ selections[i].action = "latest"
         /\ selections[i].targetVersion = InputRecords[i].latestVersion

\* policy 'latest' passed over a nearest version that differs from the latest
C7_Witness ==
  /\ fixMode = "latest"
  /\ \E i \in 1..Len(selections) :
       /\ InputRecords[i].nearestCompatibleVersion # NULL
       /\ InputRecords[i].nearestCompatibleVersion # InputRecords[i].latestVersion
       /\ selections[i].targetVersion = InputRecords[i].latestVersion

\* the record allDeps holds under a selection's package name
HasRecord(selection) == \E k \in 1..Len(allDeps) : allDeps[k].name = selection.packageName

RecordOf(selection) ==
  allDeps[CHOOSE k \in 1..Len(allDeps) :
            /\ allDeps[k].name = selection.packageName
            /\ \A m \in 1..(k - 1) : allDeps[m].name # selection.packageName]

\* what a selection contributes by its action
Contribution(selection) ==
  IF selection.action = "skip" \/ ~HasRecord(selection) THEN <<>>
  ELSE IF selection.action = "nearest-compatible"
       THEN RecordOf(selection).requiredUpgradesForNearest
  ELSE RecordOf(selection).requiredUpgradesForLatest

\* the contributions of the first n selections, in selection order
RECURSIVE ContributionsUpTo(_)
ContributionsUpTo(n) ==
  IF n = 0 THEN <<>> ELSE ContributionsUpTo(n - 1) \o Contribution(selections[n])

Contributions == ContributionsUpTo(Len(selections))

\* C8: collectCompanionUpgrades returns a list in which each companion name
\* occurs at most once; when several non-skip selections contribute a companion
\* of the same name, the entry kept is the one of the earliest selection in
\* selection order, later entries being dropped even if their range differs.
C8_CompanionsFirstWins ==
  collected =>
    /\ \A k, m \in 1..Len(companionUpgrades) :
         companionUpgrades[k].name = companionUpgrades[m].name => k = m
    /\ \A k \in 1..Len(companionUpgrades) :
         \E c \in 1..Len(Contributions) :
           /\ Contributions[c] = companionUpgrades[k]
           /\ \A b \in 1..(c - 1) : Contributions[b].name # companionUpgrades[k].name

\* two non-skip selections contributed final-form with different ranges and
\* the list keeps the entry of the first
C8_Witness ==
  /\ collected
  /\ \E i, j \in 1..Len(selections) :
       /\ i < j
       /\ \E a \in 1..Len(Contribution(selections[i])),
             b \in 1..Len(Contribution(selections[j])) :
            /\ Contribution(selections[i])[a].name = Contribution(selections[j])[b].name
            /\ Contribution(selections[i])[a].requiredVersion
                 # Contribution(selections[j])[b].requiredVersion
            /\ \E k \in 1..Len(companionUpgrades) :
                 companionUpgrades[k] = Contribution(selections[i])[a]

\* C9: each selection contributes companions by its action only: a skip
\* selection none (only skip selections give the empty list), a
\* nearest-compatible selection the requiredUpgradesForNearest of its record,
\* a latest selection the requiredUpgradesForLatest of its record.
C9_ContributionByAction ==
  collected =>
    /\ \A k \in 1..Len(companionUpgrades) :
         \E i \in 1..Len(selections) :
           /\ selections[i].action # "skip"
           /\ \E a \in 1..Len(Contribution(selections[i])) :
                Contribution(selections[i])[a] = companionUpgrades[k]
    /\ \A i \in 1..Len(selections) :
         \A a \in 1..Len(Contribution(selections[i])) :
           \E k \in 1..Len(companionUpgrades) :
             companionUpgrades[k].name = Contribution(selections[i])[a].name
    /\ (\A i \in 1..Len(selections) : selections[i].action = "skip")
         => companionUpgrades = <<>>

\* a skipped record with companions gave none, while a nearest-compatible
\* selection gave the list for its nearest version, which differs from the
\* list for its latest version
C9_Witness ==
  /\ collected
  /\ \E i, j \in 1..Len(selections) :
       /\ selections[i].action = "skip"
       /\ HasRecord(selections[i])
       /\ Len(RecordOf(selections[i]).requiredUpgradesForLatest) > 0
       /\ selections[j].action = "nearest-compatible"
       /\ RecordOf(selections[j]).requiredUpgradesForNearest
            # RecordOf(selections[j]).requiredUpgradesForLatest
       /\ companionUpgrades = RecordOf(selections[j]).requiredUpgradesForNearest

\* every package name is declared in one section only
NamesDeclaredOnce ==
  \A i, j \in 1..Len(allDeps) : allDeps[i].name = allDeps[j].name => i = j

\* C10: in the plan built from a list of selections a package name appears at
\* most once across main upgrades and companion upgrades together, so that one
\* version string is written per affected package (here for a project that
\* declares every package once).
C10_OneWritePerPackage ==
  NamesDeclaredOnce =>
    \A i, j \in 1..Len(writes) : writes[i].name = writes[j].name => i = j

\* C11: every selection produced by applyFixMode or by promptUpgradeActions
\* has an absent (null) target version if and only if its action is 'skip'.
C11_NullTargetIffSkip ==
  \A i \in 1..Len(selections) :
    (selections[i].targetVersion = NULL) <=> (selections[i].action = "skip")

\* the user skipped one record and upgraded another, which has no nearest
\* compatible version, to its latest version
C11_Witness ==
  /\ called = "promptUpgradeActions"
  /\ \E i, j \in 1..Len(selections) :
       /\ selections[i].action = "skip"
       /\ selections[j].action = "latest"
       /\ InputRecords[j].nearestCompatibleVersion = NULL
       /\ selections[j].targetVersion = InputRecords[j].latestVersion

\* the manifest has been written to disk by updatePackageJson
ManifestWritten == called = "applyUpgrades" /\ installStarted

\* C12: for every selection with action other than skip and a present target
\* version, updatePackageJson writes '^' + targetVersion for that package into
\* the manifest section named by the dependency class of the selection's
\* record: the written manifest holds that entry.
C12_MainUpgradeWritten ==
  ManifestWritten =>
    \A i \in 1..Len(selections) :
      (selections[i].action # "skip" /\ selections[i].targetVersion # NULL) =>
        /\ InputRecords[i].dependencyType \in DOMAIN packageJson
        /\ selections[i].packageName \in DOMAIN packageJson[InputRecords[i].dependencyType]
        /\ packageJson[InputRecords[i].dependencyType][selections[i].packageName]
             = <<"^">> \o selections[i].targetVersion

(***************************************************************************)
(* Claims about the command line run (SpecRun)                             *)
(***************************************************************************)
\* the process has ended
Ended == pc \in {"exited", "returned"}

\* C13: whenever the analysis finds at least one incompatible dependency and
\* the run applies no fix to the manifest, the process exits with code 1
\* (runtime errors, which exit with code 2, set aside); and it exits with code
\* 0 only when no incompatible dependency remains unresolved.
C13_ExitOneWithoutFix ==
  Ended =>
    /\ (hasIncompatible(allDeps) /\ ~installStarted /\ exitCode # ERROR)
         => exitCode = INCOMPATIBLE
    /\ exitCode = SUCCESS
         => (~hasIncompatible(allDeps) \/ (installStarted /\ success = "true"))

\* the manifest updatePackageJson leaves for the selections of the run
UpgradedManifest ==
  updatePackageJson(ManifestOf(allDeps), selections, allDeps, TRUE).packageJson

\* the installer was started on the written manifest and did not succeed
InstallerFailed == installStarted /\ success = "false"

\* C15: when the installer fails after the manifest was written, applyUpgrades
\* returns false, the process exits with code 2 and the manifest on disk is
\* still the upgraded one.
C15_InstallerFailureKeepsManifest ==
  (Ended /\ InstallerFailed) =>
    /\ called = "applyUpgrades"
    /\ exitCode = ERROR
    /\ packageJson = UpgradedManifest

\* the run has ended on a failed installation, with a manifest that differs
\* from the one it read
C15_Witness ==
  /\ Ended /\ InstallerFailed
  /\ exitCode = ERROR
  /\ packageJson = UpgradedManifest
  /\ packageJson # ManifestOf(allDeps)

\* C16: with --json the run issues no prompt: none for the version (without
\* --react it fails with exit code 2), none for the upgrade actions and no
\* confirmation, incompatible dependencies or not.
C16_JsonNeverPrompts ==
  options.json =>
    /\ prompts = <<>>
    /\ pc # "confirm"
    /\ called \notin {"promptReactVersion", "promptUpgradeActions", "confirmUpgrade"}
    /\ (~Truthy(options.react) /\ pc # "start")
         => (pc = "exited" /\ exitCode = ERROR /\ called = "run throws")

\* a --json run without --fix has ended on incompatible dependencies
C16_Witness ==
  /\ options.json
  /\ options.fix = "undefined"
  /\ Ended
  /\ hasIncompatible(allDeps)
  /\ prompts = <<>>
  /\ exitCode = INCOMPATIBLE

\* the text before the second '.' of a version, the whole text without one
MajorMinorOf(v) ==
  IF Len(Split(v, ".")) < 2 THEN v ELSE Split(v, ".")[1] \o <<".">> \o Split(v, ".")[2]

\* the input is a version the registry lists, or the major or major.minor
\* of a listed version without prerelease tag
KnownVersionInput(versionInput, doc) ==
  \E i \in 1..Len(doc.versions) :
    \/ doc.versions[i].version = versionInput
    \/ /\ ~HasPrerelease(doc.versions[i].version)
       /\ \/ Split(doc.versions[i].version, ".")[1] = versionInput
          \/ MajorMinorOf(doc.versions[i].version) = versionInput

\* the run has stopped with exit code 2 with nothing analysed, read or written
StoppedBeforeAnalysis ==
  /\ pc = "exited" /\ exitCode = ERROR
  /\ allDeps = <<>> /\ packageJson = <<>>
  /\ selections = <<>> /\ writes = <<>> /\ ~installStarted

\* C20: a missing or unparsable manifest, and a --react value that is neither
\* a listed version nor the major or major.minor of one, each end the run with
\* exit code 2 before any dependency is analysed and before any manifest write.
C20_FatalInputsExitBeforeAnalysis ==
  /\ called = "readPackageJson throws" => StoppedBeforeAnalysis
  /\ (/\ Truthy(options.react)
      /\ registry.react.ok
      /\ ~KnownVersionInput(options.react, registry.react)
      /\ pc # "start")
       => (called = "resolveReactVersion throws" /\ StoppedBeforeAnalysis)

\* --react 20 against a registry that lists 18.2.0, 18.3.1, 19.0.0-rc.1, 19.0.0
C20_Witness ==
  /\ options.react = V20
  /\ registry.react.ok
  /\ called = "resolveReactVersion throws"
  /\ StoppedBeforeAnalysis


(***************************************************************************)
(* Claims about the analysis of a project (SpecAnalyze)                    *)
(***************************************************************************)
\* the packages analyzeProject requested from the registry
Requested == FilteredDeps(packageJson, options)

\* the records of the result for a package
RecordsOf(name) == SelectSeq(allDeps, LAMBDA dep : dep.name = name)

IsDegraded(dep) ==
  /\ dep.status = "unknown"
  /\ dep.latestVersion = T_unknown
  /\ dep.nearestCompatibleVersion = NULL
  /\ dep.requiredUpgrades = <<>>

\* C14: a failure of the registry request for one dependency gives that
\* dependency the record with status 'unknown', latestVersion "unknown", no
\* nearest version and no companion; analyzeProject still returns, with one
\* record for every react-related dependency it requested, the others included.
C14_FetchFailureDegrades ==
  called = "analyzeProject" =>
    \A i \in 1..Len(Requested) :
      Requested[i].name \in ReactRelatedNames =>
        /\ Len(RecordsOf(Requested[i].name)) = 1
        /\ ~Response(registry, Requested[i].name).ok =>
             IsDegraded(RecordsOf(Requested[i].name)[1])

\* the request for react-redux fails, the one for react-final-form does not:
\* the first record is degraded and the second is the analysed one
C14_Witness ==
  /\ called = "analyzeProject"
  /\ ~registry["react-redux"].ok
  /\ registry["react-final-form"].ok
  /\ Len(allDeps) = 2
  /\ allDeps[1].name = "react-final-form"
  /\ allDeps[1].status = "incompatible"
  /\ allDeps[1].nearestCompatibleVersion = T_7_0_0
  /\ allDeps[2].name = "react-redux"
  /\ IsDegraded(allDeps[2])

\* the range the manifest declares for a requested package
DeclaredRange(name) ==
  Requested[CHOOSE i \in 1..Len(Requested) : Requested[i].name = name].version

\* C17: the installed version of a record is the first version of the range
\* the manifest declares, stripped of its operator prefix: "1.2.3" for the
\* declared range "^1.2.3 || ^2.0.0".
C17_InstalledVersionIsFirstVersion ==
  called = "analyzeProject" =>
    \A i \in 1..Len(allDeps) :
      allDeps[i].installedVersion
        = extractInstalledVersion(DeclaredRange(allDeps[i].name))

\* the names the target version requires: its dependencies and its peer
\* dependencies other than react
RequiredNames(versionMeta) ==
  {versionMeta.dependencies[i].name : i \in 1..Len(versionMeta.dependencies)}
    \cup {versionMeta.peerDependencies[i].name : i \in 1..Len(versionMeta.peerDependencies)}

\* the range required for a name: the peer range when the name has one
RequiredRange(versionMeta, name) ==
  IF EntryIndex(versionMeta.peerDependencies, name) > 0
  THEN versionMeta.peerDependencies[EntryIndex(versionMeta.peerDependencies, name)].range
  ELSE versionMeta.dependencies[EntryIndex(versionMeta.dependencies, name)].range

\* the declared version, stripped, is outside a range that the tolerant
\* validation of checkReactCompatibility accepts
OutsideRequiredRange(declared, range) ==
  /\ Len(normalizePeerDepRange(range)) > 0
  /\ ~Satisfies(StripOperators(declared), normalizePeerDepRange(range))

\* the companions of a target version for a project, as the names that are
\* required, declared by the project and not react or react-dom
ExpectedUpgrades(versionMeta, projectDependencies) ==
  { RequiredUpgrade(name, StripOperators(projectDependencies[name]),
                    RequiredRange(versionMeta, name)) :
      name \in { n \in (RequiredNames(versionMeta) \cap DOMAIN projectDependencies)
                     \ {"react", "react-dom"} :
                   OutsideRequiredRange(projectDependencies[n],
                                        RequiredRange(versionMeta, n)) } }

\* the version record analyzeRequiredUpgrades worked on for a record of the result
TargetMeta(dep) ==
  VersionMeta(Response(registry, dep.name).versions, dep.nearestCompatibleVersion)

Range(list) == {list[i] : i \in 1..Len(list)}

\* C18: for a target version whose record exists, a companion is emitted for a
\* required entry exactly when the declared version, stripped of its operator
\* prefix, does not satisfy the required range, validated tolerantly as in
\* checkReactCompatibility; it carries the stripped current version and the
\* required range as written.
C18_EmitsExactlyWhenUnsatisfied ==
  called = "analyzeProject" =>
    \A i \in 1..Len(allDeps) :
      Truthy(allDeps[i].nearestCompatibleVersion) =>
        Range(allDeps[i].requiredUpgrades)
          = ExpectedUpgrades(TargetMeta(allDeps[i]), ProjectDependencies(packageJson))

\* C19: a companion emitted by analyzeRequiredUpgrades names a package the
\* project declares, never react or react-dom, and for a name that is both a
\* dependency and a peer dependency of the target version the peer range is
\* the one compared with the declared version and reported.
C19_CompanionsDeclaredPeerWins ==
  called = "analyzeProject" =>
    \A i \in 1..Len(allDeps) :
      \A k \in 1..Len(allDeps[i].requiredUpgrades) :
        /\ allDeps[i].requiredUpgrades[k].name \in DOMAIN ProjectDependencies(packageJson)
        /\ allDeps[i].requiredUpgrades[k].name \notin {"react", "react-dom"}
        /\ allDeps[i].requiredUpgrades[k].requiredVersion
             = RequiredRange(TargetMeta(allDeps[i]), allDeps[i].requiredUpgrades[k].name)
        /\ ~Satisfies(allDeps[i].requiredUpgrades[k].currentVersion,
                      ValidRange(allDeps[i].requiredUpgrades[k].requiredVersion))

\* react-final-form 7.0.0 depends on final-form ^4.20.10 and on react-dom,
\* and has the peer final-form ^4.21.0; the project declares both packages
\* and the one companion is final-form with the peer range
C19_Witness ==
  /\ called = "analyzeProject"
  /\ Len(allDeps) > 0
  /\ allDeps[1].name = "react-final-form"
  /\ allDeps[1].nearestCompatibleVersion = T_7_0_0
  /\ TargetMeta(allDeps[1]).dependencies
       = <<Entry("final-form", T_caret_4_20_10), Entry("react-dom", R_caret19)>>
  /\ TargetMeta(allDeps[1]).peerDependencies = <<Entry("final-form", T_caret_4_21_0)>>
  /\ "react-dom" \in DOMAIN ProjectDependencies(packageJson)
  /\ allDeps[1].requiredUpgrades
       = <<RequiredUpgrade("final-form", T_4_20_0, T_caret_4_21_0)>>

\* the companions of the latest version of a package that admits the target
LatestUpgrades(dep) ==
  IF Truthy(findLatestCompatibleVersion(Response(registry, dep.name).versions,
                                        targetReactVersion))
  THEN analyzeRequiredUpgrades(
         Response(registry, dep.name),
         findLatestCompatibleVersion(Response(registry, dep.name).versions,
                                     targetReactVersion),
         ProjectDependencies(packageJson))
  ELSE <<>>

\* C23: every incompatible record carries requiredUpgradesForLatest, the
\* companions resolved against the latest version found by the latest search,
\* whether or not a nearest version was found, and requiredUpgradesForNearest,
\* which is empty when no nearest version was found.
C23_LatestCompanionsAlwaysResolved ==
  called = "analyzeProject" =>
    \A i \in 1..Len(allDeps) :
      allDeps[i].status = "incompatible" =>
        /\ {"requiredUpgradesForNearest", "requiredUpgradesForLatest"} \subseteq DOMAIN allDeps[i]
        /\ allDeps[i].requiredUpgradesForLatest = LatestUpgrades(allDeps[i])
        /\ ~Truthy(allDeps[i].nearestCompatibleVersion)
             => allDeps[i].requiredUpgradesForNearest = <<>>

\* the releases of a catalog that are not above a version
ReleasesNotAbove(catalog, version) ==
  {i \in 1..Len(catalog) :
     ~HasPrerelease(catalog[i].version) /\ Compare(catalog[i].version, version) <= 0}

\* the releases of a catalog
Releases(catalog) == {i \in 1..Len(catalog) : ~HasPrerelease(catalog[i].version)}

\* the version record resolved for an installed version: the exact one, else
\* the highest release not above it, else the oldest release, else none (0)
ResolvedRecord(catalog, version) ==
  IF \E i \in 1..Len(catalog) : catalog[i].version = version
  THEN CHOOSE i \in 1..Len(catalog) : catalog[i].version = version
  ELSE IF ReleasesNotAbove(catalog, version) # {}
  THEN CHOOSE i \in ReleasesNotAbove(catalog, version) :
         \A j \in ReleasesNotAbove(catalog, version) :
           Compare(catalog[j].version, catalog[i].version) <= 0
  ELSE IF Releases(catalog) # {}
  THEN CHOOSE i \in Releases(catalog) :
         \A j \in Releases(catalog) : Compare(catalog[j].version, catalog[i].version) >= 0
  ELSE 0

\* the record of a package is the one of the version record resolved for the
\* installed version
FollowsResolvedRecord(dep, catalog, at) ==
  IF at = 0
  THEN /\ dep.status = "unknown"
       /\ dep.supportedReactRange = NULL
       /\ dep.nearestCompatibleVersion = NULL
       /\ dep.requiredUpgrades = <<>>
  ELSE /\ dep.supportedReactRange
            = (IF Truthy(catalog[at].react) THEN catalog[at].react ELSE NULL)
       /\ dep.status = checkReactCompatibility(targetReactVersion, catalog[at].react)

\* C24: the version record analysed for a package is the one of the installed
\* version when the catalog has it, otherwise the highest release not above
\* the installed version, otherwise the oldest release; only without any of
\* these is the record unknown with no peer range, no nearest version and no
\* companion.
C24_ResolvesVersionRecord ==
  called = "analyzeProject" =>
    \A i \in 1..Len(allDeps) :
      Response(registry, allDeps[i].name).ok =>
        FollowsResolvedRecord(
          allDeps[i], Response(registry, allDeps[i].name).versions,
          ResolvedRecord(Response(registry, allDeps[i].name).versions,
                         extractInstalledVersion(DeclaredRange(allDeps[i].name))))


(***************************************************************************)
(* Claims about applyUpgrades (SpecUpgrade)                                *)
(***************************************************************************)
\* position of a step among the steps of applyUpgrades, 0 when it did not happen
StepAt(step) ==
  IF \E i \in 1..Len(steps) : steps[i] = step
  THEN CHOOSE i \in 1..Len(steps) : steps[i] = step
  ELSE 0

\* reading or writing the manifest has failed
ManifestFailed ==
  StepAt("readPackageJson throws") > 0 \/ StepAt("writePackageJson throws") > 0

\* C21: the installer is started only after the manifest write has completed:
\* the write precedes it and the updated manifest is on disk; when reading or
\* writing the manifest fails the installer is never started, the manifest on
\* disk is the one read and applyUpgrades returns false.
C21_InstallOnlyAfterWrite ==
  /\ (installStarted \/ StepAt("runInstall") > 0) =>
       /\ StepAt("writePackageJson") > 0
       /\ StepAt("writePackageJson") < StepAt("runInstall")
       /\ packageJson
            = updatePackageJson(ManifestOf(allDeps), selections, allDeps, TRUE).packageJson
  /\ ManifestFailed =>
       /\ ~installStarted
       /\ StepAt("runInstall") = 0
       /\ packageJson = ManifestOf(allDeps)
       /\ success = "false"

\* the write of an update that changes the manifest has failed
C21_Witness ==
  /\ called = "applyUpgrades"
  /\ StepAt("writePackageJson throws") > 0
  /\ Len(writes) > 0
  /\ updatePackageJson(ManifestOf(allDeps), selections, allDeps, TRUE).packageJson
       # ManifestOf(allDeps)
  /\ ~installStarted
  /\ success = "false"


(***************************************************************************)
(* Claims about the registry client (SpecFetch)                            *)
(***************************************************************************)
\* the calls whose request for a package is in flight
InFlight(name) ==
  {c \in DOMAIN calls : calls[c].packageName = name /\ calls[c].at \in {"request", "body"}}

\* the calls for a package that have resolved
Resolved(name) ==
  {c \in DOMAIN calls : calls[c].packageName = name /\ calls[c].state = "resolved"}

\* C22: for every package name at most one registry request is in flight at a
\* time, whatever the interleaving of the concurrent calls, and all the calls
\* for the name resolve with the same value.
C22_SingleFlightPerName ==
  \A name \in FetchNames :
    /\ Cardinality(InFlight(name)) <= 1
    /\ \A c, d \in Resolved(name) : calls[c].data = calls[d].data


(***************************************************************************)
(* Claims about the tolerant normalization (SpecCompat)                    *)
(***************************************************************************)
\* the end (exclusive) of the dotted number \d+(\.\d+)* that starts at i
RECURSIVE DottedEnd(_, _)
DottedEnd(s, i) ==
  LET e == DigitRunEnd(s, i)
  IN IF e > i /\ DotDigitAhead(s, e) THEN DottedEnd(s, e + 1) ELSE e

\* the number of components of the dotted number s[i..e-1]
Components(s, i, e) == Cardinality({k \in i..(e - 1) : s[k] = "."}) + 1

\* true when a hyphen, possibly followed by spaces, ends right before i
HyphenBehind(s, i) ==
  \E j \in 1..(i - 1) : s[j] = "-" /\ \A k \in (j + 1)..(i - 1) : IsSpace(s[k])

\* the padding of one version as the specification states it
PaddedVersion(s, i, e) ==
  IF HyphenAhead(s, e) \/ HyphenBehind(s, i) THEN SubSeq(s, i, e - 1)
  ELSE IF Components(s, i, e) = 1 THEN SubSeq(s, i, e - 1) \o <<".", "0", ".", "0">>
  ELSE IF Components(s, i, e) = 2 THEN SubSeq(s, i, e - 1) \o <<".", "0">>
  ELSE SubSeq(s, i, e - 1)

\* the rewriting as the specification states it: every version written in
\* the text is padded as a whole, the rest of the text is copied
RECURSIVE PadAsStatedFrom(_, _)
PadAsStatedFrom(s, i) ==
  IF i > Len(s) THEN <<>>
  ELSE IF IsDigit(s[i]) /\ ~(i > 1 /\ s[i - 1] = ".")
       THEN PaddedVersion(s, i, DottedEnd(s, i)) \o PadAsStatedFrom(s, DottedEnd(s, i))
       ELSE <<s[i]>> \o PadAsStatedFrom(s, i + 1)

PaddedAsStated(range) == PadAsStatedFrom(ReplaceOr(Trim(range)), 1)

\* the range of the call exists and fails strict validation
StrictValidationFails ==
  /\ called = "checkReactCompatibility"
  /\ peerDependencyRange # NULL
  /\ Len(peerDependencyRange) > 0
  /\ Len(ValidRange(peerDependencyRange)) = 0

\* C25: when strict validation of the range fails, the text that is validated
\* again is the range with only its one- and two-component versions padded to
\* three components (outside hyphen ranges and prerelease tags); a version
\* written with three components is the same in the rewritten text.
C25_PadsOnlyShortVersions ==
  StrictValidationFails =>
    TolerantRewrite(peerDependencyRange) = PaddedAsStated(peerDependencyRange)


\* the packages named by a selection that is not skipped or by a companion
\* collected for the selections
NamedForUpdate ==
  {selections[i].packageName : i \in {j \in 1..Len(selections) : selections[j].action # "skip"}}
    \cup
  {collectCompanionUpgrades(selections, allDeps)[i].name :
     i \in 1..Len(collectCompanionUpgrades(selections, allDeps))}

\* the packages whose selection is skip and that no collected companion names
SkippedOnly ==
  {selections[i].packageName : i \in {j \in 1..Len(selections) : selections[j].action = "skip"}}
    \ NamedForUpdate

\* C26: updatePackageJson changes only entries of packages that a non-skip
\* selection or a collected companion names: the manifest keeps its sections
\* and every section its keys (a companion is written only where it is
\* declared), and every other entry, a skipped package's included, keeps its
\* range.
C26_UpdateTouchesOnlyNamed ==
  called = "applyUpgrades" =>
    /\ DOMAIN packageJson = DOMAIN ManifestOf(allDeps)
    /\ \A section \in DOMAIN packageJson :
         /\ DOMAIN packageJson[section] = DOMAIN ManifestOf(allDeps)[section]
         /\ \A name \in DOMAIN packageJson[section] :
              name \notin NamedForUpdate =>
                packageJson[section][name] = ManifestOf(allDeps)[section][name]
    /\ \A k \in 1..Len(writes) :
         /\ writes[k].name \in NamedForUpdate
         /\ writes[k].section \in DOMAIN ManifestOf(allDeps)
         /\ writes[k].name \in DOMAIN ManifestOf(allDeps)[writes[k].section]

\* a manifest was written in which a companion changed and a skipped package
\* kept its range
C26_Witness ==
  /\ called = "applyUpgrades"
  /\ StepAt("writePackageJson") > 0
  /\ SkippedOnly # {}
  /\ \E k \in 1..Len(writes) :
       /\ writes[k].name = "final-form"
       /\ packageJson[writes[k].section]["final-form"]
            # ManifestOf(allDeps)[writes[k].section]["final-form"]
  /\ \A section \in DOMAIN packageJson : \A name \in DOMAIN packageJson[section] :
       name \in SkippedOnly =>
         packageJson[section][name] = ManifestOf(allDeps)[section][name]


\* the selections, by position, of packages that more than one analysed
\* section declares and that are not skipped
SelectedTwice ==
  {i \in 1..Len(selections) :
     /\ selections[i].action # "skip"
     /\ \E j \in 1..Len(selections) :
          /\ j # i
          /\ selections[j].action # "skip"
          /\ selections[j].packageName = selections[i].packageName}

\* C27: when a package is declared in more than one analysed section and every
\* declaration yields a non-skip selection, updatePackageJson writes each
\* selection's new version into the section of that selection's record, and no
\* selected declaration is left at its old range.
C27_EverySectionWritten ==
  ManifestWritten =>
    \A i \in SelectedTwice :
      /\ \E k \in 1..Len(writes) :
           writes[k] = [section |-> InputRecords[i].dependencyType,
                        name |-> selections[i].packageName,
                        value |-> <<"^">> \o selections[i].targetVersion]
      /\ packageJson[InputRecords[i].dependencyType][selections[i].packageName]
           # ManifestOf(allDeps)[InputRecords[i].dependencyType][selections[i].packageName]


\* "^unknown"
T_caret_unknown == <<"^">> \o T_unknown

\* the selections applyFixMode makes from the incompatible records of the
\* result
FixSelections(mode) == applyFixMode(incompatibleDeps(allDeps), mode)

\* the assignments updatePackageJson makes for those selections
FixWrites(mode) == UpdateMain(FilterUpgrades(FixSelections(mode)), allDeps, 1, [packageJson |-> packageJson, writes |-> <<>>]).writes

\* C28: every incompatible record of the analysis carries the latestVersion of
\* the registry document, never "unknown", and only incompatible records have
\* a nearest compatible version; so no selection made from the incompatible
\* records targets "unknown" and no "^unknown" is assigned to the manifest.
C28_IncompatibleHasRegistryLatest ==
  called = "analyzeProject" =>
    /\ \A i \in 1..Len(allDeps) :
         /\ allDeps[i].status = "incompatible" =>
              /\ allDeps[i].latestVersion # T_unknown
              /\ Response(registry, allDeps[i].name).ok
              /\ allDeps[i].latestVersion = Response(registry, allDeps[i].name).latest
         /\ allDeps[i].nearestCompatibleVersion # NULL => allDeps[i].status = "incompatible"
    /\ \A mode \in FixModes :
         /\ \A k \in 1..Len(FixSelections(mode)) :
              FixSelections(mode)[k].targetVersion # T_unknown
         /\ \A k \in 1..Len(FixWrites(mode)) : FixWrites(mode)[k].value # T_caret_unknown

\* the result holds an incompatible record next to a record whose latest
\* version is "unknown", and fix mode latest writes the incompatible one
C28_Witness ==
  /\ called = "analyzeProject"
  /\ \E i, j \in 1..Len(allDeps) :
       /\ allDeps[i].status = "incompatible"
       /\ allDeps[i].nearestCompatibleVersion # NULL
       /\ allDeps[j].latestVersion = T_unknown
       /\ \E k \in 1..Len(FixWrites("latest")) :
            /\ FixWrites("latest")[k].name = allDeps[i].name
            /\ FixWrites("latest")[k].value = <<"^">> \o allDeps[i].latestVersion


(***************************************************************************)
(* Further claims about the command line run (SpecRun)                     *)
(***************************************************************************)
\* the analysis has returned and reports no incompatible record
NothingIncompatible == called = "analyzeProject" /\ InputRecords = <<>>

\* C29: when no reported dependency is incompatible, dependencies of unknown
\* status or not, the run exits with code 0 without prompting for upgrade
\* actions or confirmation, without writing the manifest and without starting
\* the installer; and the fix selector is only ever given the incompatible
\* records, so every selection belongs to one of them.
C29_NothingToFixExitsClean ==
  /\ NothingIncompatible =>
       /\ Ended => exitCode = SUCCESS
       /\ \A k \in 1..Len(prompts) : prompts[k] \notin {"upgradeAction", "confirm"}
       /\ selections = <<>>
       /\ writes = <<>>
       /\ steps = <<>>
       /\ ~installStarted
       /\ packageJson = ManifestOf(allDeps)
  /\ selections # <<>> =>
       /\ Len(selections) = Len(InputRecords)
       /\ \A k \in 1..Len(selections) : selections[k].packageName = InputRecords[k].name

\* the run has ended with code 0 on a project whose only record is unknown
C29_Witness ==
  /\ pc = "exited"
  /\ exitCode = SUCCESS
  /\ called = "analyzeProject"
  /\ Len(allDeps) > 0
  /\ \A i \in 1..Len(allDeps) : allDeps[i].status = "unknown"
  /\ selections = <<>>
  /\ ~installStarted


(***************************************************************************)
(* Further claims about applyUpgrades (SpecUpgrade)                        *)
(***************************************************************************)
\* every selection is a skip; the list may be empty
OnlySkips == \A k \in 1..Len(selections) : selections[k].action = "skip"

\* C30: when every selection passed to applyUpgrades is a skip, or the list is
\* empty, applyUpgrades reports success without reading or writing the
\* manifest and without starting the installer.
C30_OnlySkipsIsNoOp ==
  (called = "applyUpgrades" /\ OnlySkips) =>
    /\ success = "true"
    /\ steps = <<>>
    /\ writes = <<>>
    /\ ~installStarted
    /\ packageJson = ManifestOf(allDeps)

\* applyUpgrades has returned for a list of skips that is not empty
C30_Witness ==
  /\ called = "applyUpgrades"
  /\ Len(selections) = MaxDeps
  /\ OnlySkips
  /\ success = "true"
  /\ steps = <<>>

====
